---- MODULE Spec2Model ----
(***************************************************************************)
(* Capture pipeline of the OCR screen-capture application (src/main.js):   *)
(* CoordinateSystemManager, SelfCapturePreventionManager, CaptureManager,  *)
(* captureFullScreen, processOCR and the IPC handlers that drive them.     *)
(*                                                                         *)
(* The main process is a single-threaded event loop.  A handler runs       *)
(* without interruption up to an `await` of a timer, an OS call or an IPC  *)
(* reply; an `await` of an already settled promise only yields to the      *)
(* microtask queue, which drains before the next event is dispatched.      *)
(* Every action below is therefore one such uninterrupted run.             *)
(***************************************************************************)
EXTENDS Integers, Sequences, FiniteSets, TLC

----------------------------------------------------------------------------
(* Bounds of the model.                                                    *)

MaxAttempts == 2        \* capture attempts (area-selected / fullscreen) per behaviour
MaxOverlays == 1        \* selection overlays created per behaviour
MaxPendingStarts == 1   \* start-capture handlers awaiting the permission check
MaxCoord == 3           \* selection coordinates explored by the geometry specification
MaxRepeatedStarts == 2  \* overlays created per behaviour when start-capture is repeated

\* display.scaleFactor is a real number; the model holds it as a multiple
\* of 1/SfDen (scaleFactor 1.25 is 5 when SfDen is 4).
SfDen == 4

Null == 0                    \* a null window reference
NoValue == [none |-> TRUE]   \* a null or unset object-valued variable
\* CoordinateSystemManager.overlayBounds is only tested for truthiness
\* (transformBounds, line 1271): a rectangle stored in it is held as OverlaySet.
OverlaySet == [set |-> TRUE]

----------------------------------------------------------------------------
(* Geometry: CoordinateSystemManager and the crop arithmetic of            *)
(* CaptureManager.captureScreen.                                           *)

Rect(x, y, w, h) == [x |-> x, y |-> y, width |-> w, height |-> h]

\* Math.round(num / den) for den > 0: the nearest integer, ties towards
\* +infinity, which is floor(num/den + 1/2).
MathRound(num, den) == (2 * num + den) \div (2 * den)

\* CoordinateSystemManager.transformBounds: overlayBounds truthy means the
\* selection is already global; otherwise the work-area origin is added.
\* The result is {actualBounds, scaledBounds}.
transformBounds_DoubleOffset(rawBounds, displayInfo, overlayBounds) ==
    LET actualBounds ==
          Rect(rawBounds.x + displayInfo.workArea.x,
               rawBounds.y + displayInfo.workArea.y,
               rawBounds.width, rawBounds.height)
        sf == displayInfo.scaleFactor
    IN  [actualBounds |-> actualBounds,
         scaledBounds |-> Rect(MathRound(actualBounds.x * sf, SfDen),
                               MathRound(actualBounds.y * sf, SfDen),
                               MathRound(actualBounds.width * sf, SfDen),
                               MathRound(actualBounds.height * sf, SfDen))]

transformBounds_NoOffset(rawBounds, displayInfo, overlayBounds) ==
    LET sf == displayInfo.scaleFactor
    IN  [actualBounds |-> rawBounds,
         scaledBounds |-> Rect(MathRound(rawBounds.x * sf, SfDen),
                               MathRound(rawBounds.y * sf, SfDen),
                               MathRound(rawBounds.width * sf, SfDen),
                               MathRound(rawBounds.height * sf, SfDen))]

transformBounds(rawBounds, displayInfo, overlayBounds) ==
    LET actualBounds ==
          IF overlayBounds # NoValue
            THEN Rect(rawBounds.x, rawBounds.y, rawBounds.width, rawBounds.height)
            ELSE Rect(rawBounds.x + displayInfo.workArea.x,
                      rawBounds.y + displayInfo.workArea.y,
                      rawBounds.width, rawBounds.height)
        sf == displayInfo.scaleFactor
    IN  [actualBounds |-> actualBounds,
         scaledBounds |-> Rect(MathRound(actualBounds.x * sf, SfDen),
                               MathRound(actualBounds.y * sf, SfDen),
                               MathRound(actualBounds.width * sf, SfDen),
                               MathRound(actualBounds.height * sf, SfDen))]

\* captureScreen, lines 1575-1600: logicalBounds = scaledBounds / scaleFactor,
\* thumbnailBounds = round(logicalBounds * thumbnailSize / screenBounds),
\* each axis with its own ratio.
thumbnailBounds_WorkArea(scaledBounds, displayInfo, thumbnailSize) ==
    LET sf == displayInfo.scaleFactor
        sw == displayInfo.workArea.width
        sh == displayInfo.workArea.height
    IN  Rect(MathRound(scaledBounds.x * SfDen * thumbnailSize.width, sf * sw),
             MathRound(scaledBounds.y * SfDen * thumbnailSize.height, sf * sh),
             MathRound(scaledBounds.width * SfDen * thumbnailSize.width, sf * sw),
             MathRound(scaledBounds.height * SfDen * thumbnailSize.height, sf * sh))

thumbnailBounds_NoUnscale(scaledBounds, displayInfo, thumbnailSize) ==
    LET sw == displayInfo.bounds.width
        sh == displayInfo.bounds.height
    IN  Rect(MathRound(scaledBounds.x * thumbnailSize.width, sw),
             MathRound(scaledBounds.y * thumbnailSize.height, sh),
             MathRound(scaledBounds.width * thumbnailSize.width, sw),
             MathRound(scaledBounds.height * thumbnailSize.height, sh))

thumbnailBounds(scaledBounds, displayInfo, thumbnailSize) ==
    LET sf == displayInfo.scaleFactor
        sw == displayInfo.bounds.width
        sh == displayInfo.bounds.height
    IN  Rect(MathRound(scaledBounds.x * SfDen * thumbnailSize.width, sf * sw),
             MathRound(scaledBounds.y * SfDen * thumbnailSize.height, sf * sh),
             MathRound(scaledBounds.width * SfDen * thumbnailSize.width, sf * sw),
             MathRound(scaledBounds.height * SfDen * thumbnailSize.height, sf * sh))

\* SelfCapturePreventionManager.boundsOverlap
boundsOverlap_Strict(bounds1, bounds2) ==
    ~ (\/ bounds1.x + bounds1.width <= bounds2.x
       \/ bounds2.x + bounds2.width <= bounds1.x
       \/ bounds1.y + bounds1.height <= bounds2.y
       \/ bounds2.y + bounds2.height <= bounds1.y)

boundsOverlap(bounds1, bounds2) ==
    ~ (\/ bounds1.x + bounds1.width < bounds2.x
       \/ bounds2.x + bounds2.width < bounds1.x
       \/ bounds1.y + bounds1.height < bounds2.y
       \/ bounds2.y + bounds2.height < bounds1.y)

\* The bounds validation of the debug scripts (debug-capture-test.js 87-96).
WithinThumbnail(b, thumbnailSize) ==
    /\ b.x >= 0
    /\ b.y >= 0
    /\ b.x + b.width <= thumbnailSize.width
    /\ b.y + b.height <= thumbnailSize.height

----------------------------------------------------------------------------
(* Inputs of the orchestration model.                                      *)

\* The 2x display of the debug scripts (1440x900, menu bar of 25).
Retina == [scaleFactor |-> 2 * SfDen,
           bounds |-> Rect(0, 0, 1440, 900),
           workArea |-> Rect(0, 25, 1440, 875)]

\* screen.getPrimaryDisplay(): a 1920x1080 panel at 125%, top panel of 27.
PrimaryDisplay == [scaleFactor |-> SfDen + 1,
                   bounds |-> Rect(0, 0, 1536, 864),
                   workArea |-> Rect(0, 27, 1536, 837)]

\* Selections a renderer sends with area-selected: one near the left of the
\* windows, one reaching the right edge of the overlay.
SelCorner == Rect(220, 100, 30, 40)
SelEdge == Rect(2, 700, 1534, 100)
Selections == {SelCorner, SelEdge}
NoBounds == [invalid |-> TRUE] \* a payload with neither bounds nor x,y,width,height
Payloads == Selections \cup {NoBounds}

\* thumbnail.getSize() of the screen source the OS returns: the display at
\* device resolution, or scaled to the requested 3840x2160.
NativeSize == [width |-> 1920, height |-> 1080]
RequestedSize == [width |-> 3840, height |-> 2160]
Thumbnails == {NativeSize, RequestedSize}

\* BrowserWindow.getBounds() by window type: 1024x768 and 1000x700, centred
\* on the 1536x864 display; the overlay covers the work area.
WindowBounds(type) ==
    CASE type = "main" -> Rect(256, 48, 1024, 768)
      [] type = "language-management" -> Rect(268, 82, 1000, 700)
      [] OTHER -> PrimaryDisplay.workArea

Attempts == 1..MaxAttempts

\* Window objects: 1 is the main window, 2 the language-management window,
\* the others are selection overlays, numbered in creation order.
MainId == 1
LangId == 2
OverlayIds == 3..(2 + MaxOverlays)
\* The overlays of the specification in which start-capture is repeated.
RepeatedOverlayIds == 3..(2 + MaxRepeatedStarts)
WinIds == {MainId, LangId} \cup OverlayIds \cup RepeatedOverlayIds

----------------------------------------------------------------------------
(* Language packs (src/language-manager.js).                               *)

\* LanguageManager.availableLanguages, lines 28-138, in its order: the
\* combined pack and its two components (the other packs behave as "eng").
AvailableLanguages == <<"khm+eng", "eng", "khm">>
Codes == {"khm+eng", "eng", "khm"}
SingleCodes == {"eng", "khm"}
isCombined(code) == code = "khm+eng"
requiredLanguages == <<"khm", "eng">>

\* The file <code>.traineddata of the languages directory: absent, being
\* written by a download, completely written, or written completely with
\* content that validateLanguageFile rejects.  The field writers of the
\* manager counts the downloadFile calls in flight on the file of a language.
FileStates == {"absent", "partial", "complete", "corrupt"}

\* The language manager with "eng" installed by an earlier download.
InstalledEng ==
    [installedLanguages |-> <<"eng">>,
     defaultLanguage |-> "eng",
     manifest |-> {"eng"},
     files |-> [c \in SingleCodes |-> IF c = "eng" THEN "complete" ELSE "absent"],
     downloadProgress |-> [c \in Codes |-> "none"],
     activeDownloads |-> {},
     writers |-> [c \in SingleCodes |-> 0],
     combinedIndex |-> 0,
     combinedSnapshot |-> {}]

\* The language manager of a first launch: nothing installed, no file.
NothingInstalled ==
    [installedLanguages |-> <<>>,
     defaultLanguage |-> "none",
     manifest |-> {},
     files |-> [c \in SingleCodes |-> "absent"],
     downloadProgress |-> [c \in Codes |-> "none"],
     activeDownloads |-> {},
     writers |-> [c \in SingleCodes |-> 0],
     combinedIndex |-> 0,
     combinedSnapshot |-> {}]

\* processOCR is not running; store.get("language") has its default, "auto"
\* (main.js, line 246); no Tesseract worker was created.
OcrIdle == [pc |-> "idle", language |-> "auto", workers |-> {}]

VARIABLES
    win,                      \* BrowserWindow objects: type, state, visible
    mainWindow,               \* module variable mainWindow (Null or a window id)
    captureWindow,            \* module variable captureWindow
    languageManagementWindow, \* module variable languageManagementWindow
    appWindows,               \* SelfCapturePreventionManager.appWindows, in insertion order
    overlayWindow,            \* SelfCapturePreventionManager.overlayWindow
    displayInfo,              \* CoordinateSystemManager.displayInfo
    overlayBounds,            \* CoordinateSystemManager.overlayBounds
    display,                  \* what screen.getPrimaryDisplay() returns now
    captureMode,              \* store.get("captureMode")
    startPending,             \* start-capture handlers awaiting checkScreenRecordingPermission
    attempt,                  \* per capture attempt: position and locals of its handler
    geo,                      \* state of the specifications of single functions
    languageManager,          \* the LanguageManager: its store, its files, its downloads
    ocr                       \* processOCR: store.get("language"), its position, its workers

vars == <<win, mainWindow, captureWindow, languageManagementWindow, appWindows,
          overlayWindow, displayInfo, overlayBounds, display, captureMode,
          startPending, attempt, geo, languageManager, ocr>>

NoWindow == [type |-> "none", state |-> "none", visible |-> FALSE]

IdleAttempt == [pc |-> "idle", kind |-> "none", scaledBounds |-> NoValue,
                thumbnailSize |-> NoValue, thumbnailBounds |-> NoValue,
                processingWin |-> "none", listeners |-> {},
                hides |-> 0, restores |-> 0, pendingRestore |-> FALSE, preHideVisible |-> {},
                events |-> 0, outcome |-> "none",
                snapshot |-> NoValue, cancelSeen |-> FALSE]

GeoIdle == [pc |-> "off"]

\* After app.whenReady on a launch with an installed language: the main
\* window exists, is registered and is shown.
OrchInit ==
    /\ win = [w \in WinIds |->
                IF w = MainId THEN [type |-> "main", state |-> "open", visible |-> TRUE]
                              ELSE NoWindow]
    /\ mainWindow = MainId
    /\ captureWindow = Null
    /\ languageManagementWindow = Null
    /\ appWindows = <<MainId>>
    /\ overlayWindow = Null
    /\ displayInfo = NoValue
    /\ overlayBounds = NoValue
    /\ display = PrimaryDisplay
    /\ captureMode = "area"
    /\ startPending = 0
    /\ attempt = [a \in Attempts |-> IdleAttempt]
    /\ languageManager = InstalledEng
    /\ ocr = OcrIdle

Init == OrchInit /\ geo = GeoIdle

----------------------------------------------------------------------------
(* BrowserWindow operations on the window table.                           *)

Range(s) == {s[i] : i \in 1..Len(s)}

\* `ref && !ref.isDestroyed()`
Alive(w, ref) == ref # Null /\ w[ref].state # "destroyed"

isVisible(w, id) == w[id].state = "open" /\ w[id].visible

\* show() and hide() act on an open window; a window being closed is
\* already off screen and stays so.
Show(w, id) == IF w[id].state = "open" THEN [w EXCEPT ![id].visible = TRUE] ELSE w
Hide(w, id) == IF w[id].state = "open" THEN [w EXCEPT ![id].visible = FALSE] ELSE w

\* close(): the window leaves the screen now, its 'closed' event comes later.
Close(w, id) ==
    IF w[id].state = "open" THEN [w EXCEPT ![id].state = "closing", ![id].visible = FALSE] ELSE w

ShowIfAlive(w, ref) == IF Alive(w, ref) THEN Show(w, ref) ELSE w
HideIfAlive(w, ref) == IF Alive(w, ref) THEN Hide(w, ref) ELSE w

\* Every window of the application that is on screen.
VisibleAppWindows(w) == {id \in WinIds : isVisible(w, id)}

FreeIds(ids) == {id \in ids : win[id].state = "none"}
NewId(ids) == CHOOSE id \in FreeIds(ids) : \A o \in FreeIds(ids) : id <= o

----------------------------------------------------------------------------
(* SelfCapturePreventionManager.  The operations below act on the run      *)
(* state m of the handler that calls them: m.win the window table, m.att   *)
(* the attempt's locals and counters, m.cw captureWindow.  The field       *)
(* preHideVisible of an attempt records, from a hideAllAppWindows to the   *)
(* next restoreAppWindows, which windows were on screen before the hide.   *)
(* The field snapshot records the displayInfo its transformBounds used,    *)
(* and cancelSeen that a cancel-capture was handled between a hide and the *)
(* restore that follows it.                                                *)

Registered == Range(appWindows)

\* hideAllAppWindows, synchronous part: hide the overlay if it is not
\* destroyed and every registered window that is not destroyed and visible.
\* Its timers are awaited by the caller's next step.
hideAllAppWindows_RegisteredOnly(m) ==
    LET w1 == [id \in WinIds |->
                 IF id \in Registered /\ m.win[id].state # "destroyed" /\ isVisible(m.win, id)
                   THEN [m.win[id] EXCEPT !.visible = FALSE]
                   ELSE m.win[id]]
    IN  [m EXCEPT !.win = w1,
                  !.att.preHideVisible = VisibleAppWindows(m.win),
                  !.att.hides = @ + 1,
                  !.att.pendingRestore = TRUE]

hideAllAppWindows(m) ==
    LET w0 == HideIfAlive(m.win, overlayWindow)
        w1 == [id \in WinIds |->
                 IF id \in Registered /\ w0[id].state # "destroyed" /\ isVisible(w0, id)
                   THEN [w0[id] EXCEPT !.visible = FALSE]
                   ELSE w0[id]]
    IN  [m EXCEPT !.win = w1,
                  !.att.preHideVisible = VisibleAppWindows(m.win),
                  !.att.hides = @ + 1,
                  !.att.pendingRestore = TRUE]

\* restoreAppWindows: show() on every registered window that is not destroyed.
restoreAppWindows(m) ==
    [m EXCEPT !.win = [id \in WinIds |->
                         IF id \in Registered /\ m.win[id].state = "open"
                           THEN [m.win[id] EXCEPT !.visible = TRUE]
                           ELSE m.win[id]],
              !.att.restores = @ + 1,
              !.att.pendingRestore = FALSE,
              !.att.preHideVisible = {}]

\* isAppWindow(bounds): some registered, not destroyed, visible window
\* overlaps bounds.
isAppWindow(w, bounds) ==
    \E id \in Registered :
        /\ w[id].state # "destroyed"
        /\ isVisible(w, id)
        /\ boundsOverlap(bounds, WindowBounds(w[id].type))

----------------------------------------------------------------------------
(* Pieces of the handlers.                                                 *)

\* mainWindow.webContents.send("ocr-error" | "ocr-complete", ...) guarded by
\* `mainWindow && !mainWindow.isDestroyed()`: one terminal event to the UI.
SendTerminal(m) ==
    IF Alive(m.win, mainWindow) THEN [m EXCEPT !.att.events = @ + 1] ELSE m

ShowMain(m) == [m EXCEPT !.win = ShowIfAlive(m.win, mainWindow)]

\* area-selected, lines 1798-1810: show the main window, close the overlay.
\* The attempt's locals go out of scope.
AreaSelectedEnd(m, outcome) ==
    LET m1 == ShowMain(m)
        closes == Alive(m1.win, m1.cw)
    IN  [m1 EXCEPT !.win = IF closes THEN Close(m1.win, m1.cw) ELSE m1.win,
                   !.cw = IF closes THEN Null ELSE m1.cw,
                   !.att.pc = "done",
                   !.att.outcome = outcome,
                   !.att.scaledBounds = NoValue,
                   !.att.thumbnailSize = NoValue,
                   !.att.thumbnailBounds = NoValue,
                   !.att.snapshot = NoValue]

\* area-selected, catch (captureError), lines 1782-1796.
AreaSelectedCatch(m, outcome) == AreaSelectedEnd(SendTerminal(m), outcome)

\* captureScreen, catch, lines 1614-1618.
CaptureScreenCatch(m) == restoreAppWindows(m)

\* processAreaCapture, catch, lines 1534-1538.
ProcessAreaCaptureCatch(m) == restoreAppWindows(m)

\* captureFullScreen, inner catch, lines 937-941.
CaptureFullScreenCatch_NoRestore(m) == m

CaptureFullScreenCatch(m) == restoreAppWindows(m)

\* captureFullScreen, outer catch, lines 942-955.
CaptureFullScreenFail(m, outcome) ==
    LET m1 == SendTerminal(ShowMain(m))
    IN  [m1 EXCEPT !.att.pc = "done", !.att.outcome = outcome]

\* processOCR, success, lines 1199-1209.
ProcessOCRComplete(m) == SendTerminal(ShowMain(m))

\* processOCR, catch, lines 1210-1228: report, then re-throw.
ProcessOCRCatch(m) == SendTerminal(ShowMain(m))

\* Attempts are numbered in the order in which their handlers start.
IsNextAttempt(a) ==
    /\ attempt[a].pc = "idle"
    /\ \A b \in Attempts : b < a => attempt[b].pc # "idle"

Run(a) == [win |-> win, att |-> attempt[a], cw |-> captureWindow]

Commit(a, m) ==
    /\ win' = m.win
    /\ attempt' = [attempt EXCEPT ![a] = m.att]
    /\ captureWindow' = m.cw

----------------------------------------------------------------------------
(* Window creation.                                                        *)

\* new BrowserWindow(...) of the given type: shown at once.
NewWindow(w, id, type) == [w EXCEPT ![id] = [type |-> type, state |-> "open", visible |-> TRUE]]

\* createLanguageManagementWindow, lines 559-590.
createLanguageManagementWindow ==
    /\ win[LangId].state = "none"
    /\ win' = NewWindow(win, LangId, "language-management")
    /\ languageManagementWindow' = LangId
    /\ appWindows' = Append(appWindows, LangId)

----------------------------------------------------------------------------
(* IPC handlers and window events outside a capture attempt.               *)

\* ipcMain.on("show-main-window"), lines 1677-1683.
ShowMainWindow ==
    /\ Alive(win, mainWindow)
    /\ win' = Show(win, mainWindow)
    /\ UNCHANGED <<mainWindow, captureWindow, languageManagementWindow, appWindows,
                   overlayWindow, displayInfo, overlayBounds, display, captureMode,
                   startPending, attempt, geo,
                   languageManager, ocr>>

\* ipcMain.on("hide-main-window"), lines 1670-1675.
HideMainWindow ==
    /\ Alive(win, mainWindow)
    /\ win' = Hide(win, mainWindow)
    /\ UNCHANGED <<mainWindow, captureWindow, languageManagementWindow, appWindows,
                   overlayWindow, displayInfo, overlayBounds, display, captureMode,
                   startPending, attempt, geo,
                   languageManager, ocr>>

\* ipcMain.on("cancel-capture"), lines 1836-1864, and ipcMain.on("capture-error"),
\* lines 1867-1890, which differ in the message sent to the main window:
\* close the overlay (captureWindow keeps its reference), show the main window.
CancelCapture_NoClose ==
    /\ \E id \in WinIds : win[id].state = "open" /\ win[id].type \in {"main", "overlay"}
    /\ win' = ShowIfAlive(win, mainWindow)
    /\ UNCHANGED <<mainWindow, captureWindow, languageManagementWindow, appWindows,
                   overlayWindow, displayInfo, overlayBounds, display, captureMode,
                   startPending, attempt, geo,
                   languageManager, ocr>>

CancelCapture ==
    /\ \E id \in WinIds : win[id].state = "open" /\ win[id].type \in {"main", "overlay"}
    /\ win' = ShowIfAlive(IF Alive(win, captureWindow) THEN Close(win, captureWindow) ELSE win,
                          mainWindow)
    /\ UNCHANGED <<mainWindow, captureWindow, languageManagementWindow, appWindows,
                   overlayWindow, displayInfo, overlayBounds, display, captureMode,
                   startPending, attempt, geo,
                   languageManager, ocr>>

\* The same handler run while some attempt is between a hideAllAppWindows and
\* the restoreAppWindows that follows it; the attempts concerned note it in
\* their history field cancelSeen.
CancelCaptureInFlight ==
    /\ \E id \in WinIds : win[id].state = "open" /\ win[id].type \in {"main", "overlay"}
    /\ \E a \in Attempts : attempt[a].pendingRestore
    /\ win' = ShowIfAlive(IF Alive(win, captureWindow) THEN Close(win, captureWindow) ELSE win,
                          mainWindow)
    /\ attempt' = [a \in Attempts |->
                     IF attempt[a].pendingRestore
                       THEN [attempt[a] EXCEPT !.cancelSeen = TRUE]
                       ELSE attempt[a]]
    /\ UNCHANGED <<mainWindow, captureWindow, languageManagementWindow, appWindows,
                   overlayWindow, displayInfo, overlayBounds, display, captureMode,
                   startPending, geo,
                   languageManager, ocr>>

\* The user closes the language-management window (a resizable, closable
\* BrowserWindow): it leaves the screen, its 'closed' event follows.
CloseLanguageManagement ==
    /\ Alive(win, languageManagementWindow)
    /\ win[languageManagementWindow].state = "open"
    /\ win' = Close(win, languageManagementWindow)
    /\ UNCHANGED <<mainWindow, captureWindow, languageManagementWindow, appWindows,
                   overlayWindow, displayInfo, overlayBounds, display, captureMode,
                   startPending, attempt, geo,
                   languageManager, ocr>>

\* The same panel after the user set its scale to 100%.
RescaledDisplay == [scaleFactor |-> SfDen,
                    bounds |-> Rect(0, 0, 1920, 1080),
                    workArea |-> Rect(0, 27, 1920, 1053)]
Displays == {PrimaryDisplay, RescaledDisplay}

\* The metrics of the primary display change: screen.getPrimaryDisplay()
\* returns d from now on.
DisplayChanged(d) ==
    /\ d # display
    /\ display' = d
    /\ UNCHANGED <<win, mainWindow, captureWindow, languageManagementWindow, appWindows,
                   overlayWindow, displayInfo, overlayBounds, captureMode, startPending,
                   attempt, geo,
                   languageManager, ocr>>

\* ipcMain.handle("show-language-management"), lines 755-762.
ShowLanguageManagement ==
    /\ IF ~Alive(win, languageManagementWindow)
         THEN createLanguageManagementWindow
         ELSE /\ win' = Show(win, languageManagementWindow)
              /\ UNCHANGED <<languageManagementWindow, appWindows>>
    /\ UNCHANGED <<mainWindow, captureWindow, overlayWindow, displayInfo, overlayBounds,
                   display, captureMode, startPending, attempt, geo,
                   languageManager, ocr>>


\* The 'closed' event of a window: it is destroyed, and its handler runs:
\* mainWindow = null (616-618), languageManagementWindow = null (577-579),
\* or, for an overlay, the main window is shown (881-888).
WindowClosed(id) ==
    /\ win[id].state = "closing"
    /\ LET w1 == [win EXCEPT ![id].state = "destroyed"]
       IN  CASE win[id].type = "main" ->
                  /\ win' = w1
                  /\ mainWindow' = Null
                  /\ UNCHANGED languageManagementWindow
             [] win[id].type = "language-management" ->
                  /\ win' = w1
                  /\ languageManagementWindow' = Null
                  /\ UNCHANGED mainWindow
             [] OTHER ->
                  /\ win' = ShowIfAlive(w1, mainWindow)
                  /\ UNCHANGED <<mainWindow, languageManagementWindow>>
    /\ UNCHANGED <<captureWindow, appWindows, overlayWindow, displayInfo, overlayBounds,
                   display, captureMode, startPending, attempt, geo,
                   languageManager, ocr>>



\* ipcMain.handle("set-config") with key captureMode, lines 657-659.
SetCaptureMode(mode) ==
    /\ mode # captureMode
    /\ captureMode' = mode
    /\ UNCHANGED <<win, mainWindow, captureWindow, languageManagementWindow, appWindows,
                   overlayWindow, displayInfo, overlayBounds, display, startPending,
                   attempt, geo,
                   languageManager, ocr>>

----------------------------------------------------------------------------
(* start-capture.                                                          *)

\* ipcMain.on("start-capture"), line 784: up to the await of
\* checkScreenRecordingPermission.
StartCapture ==
    /\ Alive(win, mainWindow)
    /\ startPending < MaxPendingStarts
    /\ startPending' = startPending + 1
    /\ UNCHANGED <<win, mainWindow, captureWindow, languageManagementWindow, appWindows,
                   overlayWindow, displayInfo, overlayBounds, display, captureMode,
                   attempt, geo,
                   languageManager, ocr>>

\* start-capture, lines 787-797: the permission is missing.
StartCaptureDenied ==
    /\ startPending > 0
    /\ startPending' = startPending - 1
    /\ UNCHANGED <<win, mainWindow, captureWindow, languageManagementWindow, appWindows,
                   overlayWindow, displayInfo, overlayBounds, display, captureMode,
                   attempt, geo,
                   languageManager, ocr>>

\* start-capture, lines 803-815: fullscreen mode hides the main window and
\* schedules captureFullScreen after 300 ms.
StartCaptureFullScreen(a) ==
    /\ startPending > 0
    /\ captureMode = "fullscreen"
    /\ IsNextAttempt(a)
    /\ startPending' = startPending - 1
    /\ win' = HideIfAlive(win, mainWindow)
    /\ attempt' = [attempt EXCEPT ![a].pc = "fs_timer", ![a].kind = "fullscreen"]
    /\ UNCHANGED <<mainWindow, captureWindow, languageManagementWindow, appWindows,
                   overlayWindow, displayInfo, overlayBounds, display, captureMode,
                   geo,
                   languageManager, ocr>>

\* start-capture, lines 816-824, with createOverlayWindow, lines 828-894, and
\* CaptureManager.setOverlayWindow, lines 1501-1504.
\* The overlay is the first unused window of ids.
StartCaptureAreaIn(ids) ==
    /\ startPending > 0
    /\ captureMode # "fullscreen"
    /\ FreeIds(ids) # {}
    /\ startPending' = startPending - 1
    /\ win' = NewWindow(HideIfAlive(win, mainWindow), NewId(ids), "overlay")
    /\ overlayWindow' = NewId(ids)
    /\ overlayBounds' = OverlaySet
    /\ captureWindow' = NewId(ids)
    /\ UNCHANGED <<mainWindow, languageManagementWindow, appWindows, displayInfo,
                   display, captureMode, attempt, geo,
                   languageManager, ocr>>

StartCaptureArea == StartCaptureAreaIn(OverlayIds)

----------------------------------------------------------------------------
(* An area capture attempt: ipcMain.on("area-selected"), lines 1686-1834,  *)
(* CaptureManager.processAreaCapture, captureScreen and processImage.      *)

\* CoordinateSystemManager.initialize, lines 1238-1253.
Snapshot(d) == [scaleFactor |-> d.scaleFactor, bounds |-> d.bounds, workArea |-> d.workArea]

\* The self-capture guard of processAreaCapture, line 1518, is given the
\* logical actualBounds.
GuardBounds_Scaled(t) == t.scaledBounds

GuardBounds(t) == t.actualBounds

\* area-selected, lines 1707-1716: a payload without coordinates is reported
\* to the main window and the handler returns.
InvalidPayload_ThroughEpilogue(m) ==
    AreaSelectedEnd([SendTerminal(m) EXCEPT !.att.kind = "area"], "invalid")

InvalidPayload(m) ==
    [SendTerminal(m) EXCEPT !.att.pc = "done",
                            !.att.kind = "area",
                            !.att.outcome = "invalid"]

\* From the event to the first timer of hideAllAppWindows.
AreaSelected_KeepsOverlayBounds(a, sender, data) ==
    /\ IsNextAttempt(a)
    /\ win[sender].state = "open"
    /\ win[sender].type \in {"main", "overlay"}
    /\ IF data = NoBounds
         THEN /\ Commit(a, InvalidPayload(Run(a)))
              /\ UNCHANGED <<overlayBounds, displayInfo>>
         ELSE LET isFromCaptureOverlay ==
                      Alive(win, captureWindow) /\ sender = captureWindow
                  ob == IF isFromCaptureOverlay THEN OverlaySet ELSE overlayBounds
                  di == Snapshot(display)
                  t == transformBounds(data, di, ob)
                  m0 == [Run(a) EXCEPT !.att.kind = "area", !.att.snapshot = di]
              IN  /\ overlayBounds' = ob
                  /\ displayInfo' = di
                  /\ IF isAppWindow(win, GuardBounds(t))
                       THEN Commit(a, AreaSelectedCatch(m0, "self_capture"))
                       ELSE Commit(a, [hideAllAppWindows(m0) EXCEPT
                                          !.att.pc = "pac_hide_wait",
                                          !.att.scaledBounds = t.scaledBounds])
    /\ UNCHANGED <<mainWindow, languageManagementWindow, appWindows, overlayWindow,
                   display, captureMode, startPending, geo,
                   languageManager, ocr>>

AreaSelected(a, sender, data) ==
    /\ IsNextAttempt(a)
    /\ win[sender].state = "open"
    /\ win[sender].type \in {"main", "overlay"}
    /\ IF data = NoBounds
         THEN /\ Commit(a, InvalidPayload(Run(a)))
              /\ UNCHANGED <<overlayBounds, displayInfo>>
         ELSE LET isFromCaptureOverlay ==
                      Alive(win, captureWindow) /\ sender = captureWindow
                  ob == IF isFromCaptureOverlay THEN OverlaySet ELSE NoValue
                  di == Snapshot(display)
                  t == transformBounds(data, di, ob)
                  m0 == [Run(a) EXCEPT !.att.kind = "area", !.att.snapshot = di]
              IN  /\ overlayBounds' = ob
                  /\ displayInfo' = di
                  /\ IF isAppWindow(win, GuardBounds(t))
                       THEN Commit(a, AreaSelectedCatch(m0, "self_capture"))
                       ELSE Commit(a, [hideAllAppWindows(m0) EXCEPT
                                          !.att.pc = "pac_hide_wait",
                                          !.att.scaledBounds = t.scaledBounds])
    /\ UNCHANGED <<mainWindow, languageManagementWindow, appWindows, overlayWindow,
                   display, captureMode, startPending, geo,
                   languageManager, ocr>>

\* processAreaCapture line 1528 after its hideAllAppWindows resolved:
\* captureScreen starts with hideAllAppWindows of its own (line 1545).
CaptureScreenStart(a) ==
    /\ attempt[a].pc = "pac_hide_wait"
    /\ Commit(a, [hideAllAppWindows(Run(a)) EXCEPT !.att.pc = "cs_hide_wait"])
    /\ UNCHANGED <<mainWindow, languageManagementWindow, appWindows, overlayWindow,
                   displayInfo, overlayBounds, display, captureMode, startPending, geo,
                   languageManager, ocr>>

\* captureScreen line 1549: desktopCapturer.getSources is requested.
CaptureScreenRequest(a) ==
    /\ attempt[a].pc = "cs_hide_wait"
    /\ attempt' = [attempt EXCEPT ![a].pc = "cs_sources_wait"]
    /\ UNCHANGED <<win, mainWindow, captureWindow, languageManagementWindow, appWindows,
                   overlayWindow, displayInfo, overlayBounds, display, captureMode,
                   startPending, geo,
                   languageManager, ocr>>

\* getSources rejected or returned no source: both catch blocks, then the
\* handler's catch and its end.
CaptureScreenFailed(a) ==
    /\ attempt[a].pc = "cs_sources_wait"
    /\ Commit(a, AreaSelectedCatch(ProcessAreaCaptureCatch(CaptureScreenCatch(Run(a))),
                                   "capture_failed"))
    /\ UNCHANGED <<mainWindow, languageManagementWindow, appWindows, overlayWindow,
                   displayInfo, overlayBounds, display, captureMode, startPending, geo,
                   languageManager, ocr>>

\* getSources returned a screen source with a thumbnail: lines 1561-1608 and
\* processImage up to its listeners, lines 1621-1662.
CaptureScreenSources(a, size) ==
    /\ attempt[a].pc = "cs_sources_wait"
    /\ attempt' = [attempt EXCEPT
          ![a].pc = "image_wait",
          ![a].thumbnailSize = size,
          ![a].thumbnailBounds = thumbnailBounds(attempt[a].scaledBounds, displayInfo, size),
          ![a].processingWin = "loading",
          ![a].listeners = {"image-processing-complete", "image-processing-error",
                            "image-processor-ready"}]
    /\ UNCHANGED <<win, mainWindow, captureWindow, languageManagementWindow, appWindows,
                   overlayWindow, displayInfo, overlayBounds, display, captureMode,
                   startPending, geo,
                   languageManager, ocr>>

----------------------------------------------------------------------------
(* processImage: the hidden processing window and the ipcMain.once         *)
(* listeners.  ipcMain is one emitter for all attempts: an event on a      *)
(* channel runs, and removes, every listener registered on that channel.   *)

Focus(g, b) == [win |-> g.win, att |-> g.atts[b], cw |-> g.cw]

Merge(g, b, m) ==
    [win |-> m.win, atts |-> [g.atts EXCEPT ![b] = m.att], cw |-> m.cw]

\* captureScreen lines 1610-1613, processAreaCapture lines 1530-1533 and
\* area-selected lines 1759-1780 after processImage resolved: both restores,
\* the preview, and processOCR up to its first await.
ImageResolved(m) ==
    [restoreAppWindows(restoreAppWindows(m)) EXCEPT !.att.pc = "ocr_wait",
                                                    !.att.scaledBounds = NoValue,
                                                    !.att.thumbnailSize = NoValue,
                                                    !.att.thumbnailBounds = NoValue,
                                                    !.att.snapshot = NoValue]

\* The same after processImage rejected.
ImageRejected_NoRestore(m) == AreaSelectedCatch(m, "crop_failed")

ImageRejected(m) ==
    AreaSelectedCatch(ProcessAreaCaptureCatch(CaptureScreenCatch(m)), "crop_failed")

\* One listener of attempt b on `channel` runs: it closes b's processing
\* window and settles b's promise, which has an effect the first time only.
ListenerRuns(g, b, channel) ==
    LET att1 == [g.atts[b] EXCEPT !.listeners = @ \ {channel}, !.processingWin = "closed"]
        g1 == [g EXCEPT !.atts[b] = att1]
    IN  IF g.atts[b].pc # "image_wait"
          THEN g1
          ELSE IF channel = "image-processing-complete"
                 THEN Merge(g1, b, ImageResolved(Focus(g1, b)))
                 ELSE Merge(g1, b, ImageRejected(Focus(g1, b)))

RECURSIVE EmitFrom(_, _, _)
EmitFrom(g, b, channel) ==
    IF b > MaxAttempts
      THEN g
      ELSE EmitFrom(IF channel \in g.atts[b].listeners THEN ListenerRuns(g, b, channel) ELSE g,
                    b + 1, channel)

Emit(channel) ==
    EmitFrom([win |-> win, atts |-> attempt, cw |-> captureWindow], 1, channel)

\* The processing window of attempt a has loaded and sends
\* image-processor-ready (lines 1652-1658).  Every registered ready listener
\* sends process-image to its own window; a window that is still loading
\* may or may not have its handler installed yet (delivered or lost).
ImageProcessorReady(a, delivered) ==
    /\ attempt[a].processingWin = "loading"
    /\ delivered \subseteq {b \in Attempts \ {a} :
                              /\ "image-processor-ready" \in attempt[b].listeners
                              /\ attempt[b].processingWin = "loading"}
    /\ attempt' = [b \in Attempts |->
          LET had == "image-processor-ready" \in attempt[b].listeners
              att1 == [attempt[b] EXCEPT !.listeners = @ \ {"image-processor-ready"}]
          IN  IF b = a
                THEN [att1 EXCEPT !.processingWin = IF had THEN "working" ELSE "idle"]
                ELSE IF b \in delivered
                       THEN [att1 EXCEPT !.processingWin = "working"]
                       ELSE att1]
    /\ UNCHANGED <<win, mainWindow, captureWindow, languageManagementWindow, appWindows,
                   overlayWindow, displayInfo, overlayBounds, display, captureMode,
                   startPending, geo,
                   languageManager, ocr>>

\* The processing window of attempt a reports its result on `channel`
\* (image-processing-complete or image-processing-error), lines 1637-1650.
ImageProcessingEvent(a, channel) ==
    /\ attempt[a].processingWin = "working"
    /\ LET g == Emit(channel)
       IN  /\ win' = g.win
           /\ attempt' = g.atts
           /\ captureWindow' = g.cw
    /\ UNCHANGED <<mainWindow, languageManagementWindow, appWindows, overlayWindow,
                   displayInfo, overlayBounds, display, captureMode, startPending, geo,
                   languageManager, ocr>>

\* processOCR returned (lines 1199-1209), then area-selected lines 1781, 1798-1810.
AreaOCRComplete(a) ==
    /\ attempt[a].pc = "ocr_wait"
    /\ Commit(a, AreaSelectedEnd(ProcessOCRComplete(Run(a)), "succeeded"))
    /\ UNCHANGED <<mainWindow, languageManagementWindow, appWindows, overlayWindow,
                   displayInfo, overlayBounds, display, captureMode, startPending, geo,
                   languageManager, ocr>>

\* processOCR threw (lines 1210-1228), then the catch of area-selected.
AreaOCRFailed(a) ==
    /\ attempt[a].pc = "ocr_wait"
    /\ Commit(a, AreaSelectedCatch(ProcessOCRCatch(Run(a)), "ocr_failed"))
    /\ UNCHANGED <<mainWindow, languageManagementWindow, appWindows, overlayWindow,
                   displayInfo, overlayBounds, display, captureMode, startPending, geo,
                   languageManager, ocr>>

----------------------------------------------------------------------------
(* A fullscreen capture attempt: captureFullScreen, lines 897-956.         *)

\* The 300 ms timer of start-capture fired: lines 899-908.
CaptureFullScreenStart(a) ==
    /\ attempt[a].pc = "fs_timer"
    /\ Commit(a, [hideAllAppWindows(Run(a)) EXCEPT !.att.pc = "fs_hide_wait"])
    /\ UNCHANGED <<mainWindow, languageManagementWindow, appWindows, overlayWindow,
                   displayInfo, overlayBounds, display, captureMode, startPending, geo,
                   languageManager, ocr>>

\* Line 912: desktopCapturer.getSources is requested.
CaptureFullScreenRequest(a) ==
    /\ attempt[a].pc = "fs_hide_wait"
    /\ attempt' = [attempt EXCEPT ![a].pc = "fs_sources_wait"]
    /\ UNCHANGED <<win, mainWindow, captureWindow, languageManagementWindow, appWindows,
                   overlayWindow, displayInfo, overlayBounds, display, captureMode,
                   startPending, geo,
                   languageManager, ocr>>

\* getSources rejected or returned no source: inner catch, outer catch.
CaptureFullScreenFailed(a) ==
    /\ attempt[a].pc = "fs_sources_wait"
    /\ Commit(a, CaptureFullScreenFail(CaptureFullScreenCatch(Run(a)), "capture_failed"))
    /\ UNCHANGED <<mainWindow, languageManagementWindow, appWindows, overlayWindow,
                   displayInfo, overlayBounds, display, captureMode, startPending, geo,
                   languageManager, ocr>>

\* getSources returned a source: lines 929-936, restore and processOCR up to
\* its first await.
CaptureFullScreenSources_OcrBeforeRestore(a) ==
    /\ attempt[a].pc = "fs_sources_wait"
    /\ attempt' = [attempt EXCEPT ![a].pc = "fs_ocr_wait"]
    /\ UNCHANGED <<win, mainWindow, captureWindow, languageManagementWindow, appWindows,
                   overlayWindow, displayInfo, overlayBounds, display, captureMode,
                   startPending, geo,
                   languageManager, ocr>>

CaptureFullScreenSources(a) ==
    /\ attempt[a].pc = "fs_sources_wait"
    /\ Commit(a, [restoreAppWindows(Run(a)) EXCEPT !.att.pc = "fs_ocr_wait"])
    /\ UNCHANGED <<mainWindow, languageManagementWindow, appWindows, overlayWindow,
                   displayInfo, overlayBounds, display, captureMode, startPending, geo,
                   languageManager, ocr>>

\* processOCR returned.
FullScreenOCRComplete(a) ==
    /\ attempt[a].pc = "fs_ocr_wait"
    /\ Commit(a, [ProcessOCRComplete(Run(a)) EXCEPT !.att.pc = "done",
                                                     !.att.outcome = "succeeded"])
    /\ UNCHANGED <<mainWindow, languageManagementWindow, appWindows, overlayWindow,
                   displayInfo, overlayBounds, display, captureMode, startPending, geo,
                   languageManager, ocr>>

\* processOCR threw inside the inner try: its catch, the inner catch, the
\* outer catch.
FullScreenOCRFailed(a) ==
    /\ attempt[a].pc = "fs_ocr_wait"
    /\ Commit(a, CaptureFullScreenFail(CaptureFullScreenCatch(ProcessOCRCatch(Run(a))),
                                       "ocr_failed"))
    /\ UNCHANGED <<mainWindow, languageManagementWindow, appWindows, overlayWindow,
                   displayInfo, overlayBounds, display, captureMode, startPending, geo,
                   languageManager, ocr>>

----------------------------------------------------------------------------
(* The capture application.                                                *)

Environment ==
    \/ ShowMainWindow
    \/ HideMainWindow
    \/ CancelCapture
    \/ ShowLanguageManagement
    \/ \E id \in WinIds : WindowClosed(id)
    \/ \E mode \in {"area", "fullscreen"} : SetCaptureMode(mode)

Starts ==
    \/ StartCapture
    \/ StartCaptureDenied
    \/ \E a \in Attempts : StartCaptureFullScreen(a)
    \/ StartCaptureArea

AreaAttempt(a, payloads, sizes) ==
    \/ \E sender \in WinIds, data \in payloads : AreaSelected(a, sender, data)
    \/ CaptureScreenStart(a)
    \/ CaptureScreenRequest(a)
    \/ CaptureScreenFailed(a)
    \/ \E size \in sizes : CaptureScreenSources(a, size)
    \/ \E delivered \in SUBSET Attempts : ImageProcessorReady(a, delivered)
    \/ \E channel \in {"image-processing-complete", "image-processing-error"} :
          ImageProcessingEvent(a, channel)
    \/ AreaOCRComplete(a)
    \/ AreaOCRFailed(a)

FullScreenAttempt(a) ==
    \/ CaptureFullScreenStart(a)
    \/ CaptureFullScreenRequest(a)
    \/ CaptureFullScreenFailed(a)
    \/ CaptureFullScreenSources(a)
    \/ FullScreenOCRComplete(a)
    \/ FullScreenOCRFailed(a)

\* Capture attempts of both kinds, overlapping in time, with one selection
\* and a raster at device resolution.
Next ==
    \/ Environment
    \/ Starts
    \/ \E a \in Attempts : AreaAttempt(a, {SelEdge, NoBounds}, {NativeSize})
    \/ \E a \in Attempts : FullScreenAttempt(a)

Spec == Init /\ [][Next]_vars

\* One area capture attempt over every selection and raster size.
AreaNext ==
    \/ Environment
    \/ StartCapture
    \/ StartCaptureDenied
    \/ StartCaptureArea
    \/ AreaAttempt(1, Payloads, Thumbnails)

AreaSpec == Init /\ [][AreaNext]_vars

\* One capture attempt of either kind, with the cancel-capture handled during
\* the attempt told apart from the others.
CancelNext ==
    \/ AreaNext
    \/ StartCaptureFullScreen(1)
    \/ FullScreenAttempt(1)
    \/ CancelCaptureInFlight

CancelSpec == Init /\ [][CancelNext]_vars

\* Area capture attempts overlapping in time while the display metrics change.
DisplayNext ==
    \/ \E d \in Displays : DisplayChanged(d)
    \/ \E a \in Attempts : AreaAttempt(a, {SelCorner}, {NativeSize})

DisplaySpec == Init /\ [][DisplayNext]_vars

\* One area capture attempt while windows are created and closed.
RegistryNext ==
    \/ AreaNext
    \/ CloseLanguageManagement

RegistrySpec == Init /\ [][RegistryNext]_vars

----------------------------------------------------------------------------
(* The geometry on its own: transformBounds and the crop arithmetic of     *)
(* captureScreen applied to every selection, display and raster of a small *)
(* grid, and to the selections of the debug scripts.                       *)

GeoScaleFactors == {SfDen, SfDen + 1, SfDen + 2, 2 * SfDen}    \* 1, 1.25, 1.5, 2 for SfDen = 4
GeoScreen == Rect(0, 0, 8, 6)
GeoDisplays ==
    {[scaleFactor |-> sf, bounds |-> GeoScreen,
      workArea |-> Rect(o[1], o[2], GeoScreen.width - o[1], GeoScreen.height - o[2])] :
        sf \in GeoScaleFactors, o \in {<<0, 0>>, <<0, 1>>, <<2, 1>>}}
GeoSelections ==
    {Rect(x, y, w, h) : x \in 0..MaxCoord, y \in 0..MaxCoord, w \in 1..MaxCoord, h \in 1..MaxCoord}
GeoThumbnails == {[width |-> 8, height |-> 6], [width |-> 16, height |-> 12],
                  [width |-> 4, height |-> 3], [width |-> 5, height |-> 4]}

GeoInputs ==
    {[pc |-> "input", rawBounds |-> r, displayInfo |-> d, overlayBounds |-> ob] :
        r \in GeoSelections, d \in GeoDisplays, ob \in {NoValue, OverlaySet}}
    \cup
    {[pc |-> "input", rawBounds |-> r, displayInfo |-> Snapshot(Retina), overlayBounds |-> ob] :
        r \in {Rect(591, 213, 231, 304), Rect(100, 100, 200, 150)},
        ob \in {NoValue, OverlaySet}}

GeoInit == OrchInit /\ geo \in GeoInputs

GeoTransform ==
    /\ geo.pc = "input"
    /\ LET t == transformBounds(geo.rawBounds, geo.displayInfo, geo.overlayBounds)
       IN  geo' = [pc |-> "transformed", rawBounds |-> geo.rawBounds,
                   displayInfo |-> geo.displayInfo, overlayBounds |-> geo.overlayBounds,
                   actualBounds |-> t.actualBounds, scaledBounds |-> t.scaledBounds]
    /\ UNCHANGED <<win, mainWindow, captureWindow, languageManagementWindow, appWindows,
                   overlayWindow, displayInfo, overlayBounds, display, captureMode,
                   startPending, attempt, languageManager, ocr>>

GeoCrop(size) ==
    /\ geo.pc = "transformed"
    /\ geo' = [pc |-> "cropped", rawBounds |-> geo.rawBounds,
               displayInfo |-> geo.displayInfo, overlayBounds |-> geo.overlayBounds,
               actualBounds |-> geo.actualBounds, scaledBounds |-> geo.scaledBounds,
               thumbnailSize |-> size,
               thumbnailBounds |-> thumbnailBounds(geo.scaledBounds, geo.displayInfo, size)]
    /\ UNCHANGED <<win, mainWindow, captureWindow, languageManagementWindow, appWindows,
                   overlayWindow, displayInfo, overlayBounds, display, captureMode,
                   startPending, attempt, languageManager, ocr>>

\* Rasters at the device resolution of the 8x6 screen at 150% and of the 2x
\* display of the debug scripts.
GeoPhysicalSizes == {[width |-> 12, height |-> 9], [width |-> 2880, height |-> 1800]}

GeoNext ==
    \/ GeoTransform
    \/ \E size \in GeoThumbnails \cup Thumbnails \cup GeoPhysicalSizes : GeoCrop(size)

GeoSpec == GeoInit /\ [][GeoNext]_vars

GeoTransformed == geo.pc \in {"transformed", "cropped"}

----------------------------------------------------------------------------
(* Properties.                                                             *)

\* C6: an overlay selection is not offset: its physical rectangle is the
\* selection times scaleFactor, each component rounded on its own, whatever
\* the work area of the display is.
C6_OverlayNotOffset ==
    (GeoTransformed /\ geo.overlayBounds # NoValue) =>
        LET sf == geo.displayInfo.scaleFactor
            r == geo.rawBounds
        IN  geo.scaledBounds = Rect(MathRound(r.x * sf, SfDen), MathRound(r.y * sf, SfDen),
                                    MathRound(r.width * sf, SfDen),
                                    MathRound(r.height * sf, SfDen))

\* An overlay selection on a display with a work-area offset and a
\* fractional scale factor, whose components round differently.
C6_Witness ==
    /\ GeoTransformed
    /\ geo.overlayBounds # NoValue
    /\ geo.displayInfo.workArea.x > 0
    /\ geo.displayInfo.workArea.y > 0
    /\ geo.displayInfo.scaleFactor = SfDen + 1
    /\ geo.rawBounds.x = 1
    /\ geo.rawBounds.width = 1
    /\ geo.scaledBounds.x + geo.scaledBounds.width # MathRound(2 * (SfDen + 1), SfDen)

\* C7 as claimed: for a window-relative selection, physical / scaleFactor - s
\* is exactly the work-area origin, on both axes.
C7_ExactOffset ==
    (GeoTransformed /\ geo.overlayBounds = NoValue) =>
        LET sf == geo.displayInfo.scaleFactor
            r == geo.rawBounds
            wa == geo.displayInfo.workArea
        IN  /\ geo.scaledBounds.x * SfDen = (r.x + wa.x) * sf
            /\ geo.scaledBounds.y * SfDen = (r.y + wa.y) * sf

Abs(n) == IF n < 0 THEN -n ELSE n

\* C7 amended: the physical origin is (s + work-area origin) * scaleFactor
\* rounded to the nearest integer: it is exact when that product is an
\* integer, and within half a physical pixel of it otherwise.
C7_OffsetWithinRounding ==
    (GeoTransformed /\ geo.overlayBounds = NoValue) =>
        LET sf == geo.displayInfo.scaleFactor
            r == geo.rawBounds
            wa == geo.displayInfo.workArea
            ex == geo.scaledBounds.x * SfDen - (r.x + wa.x) * sf
            ey == geo.scaledBounds.y * SfDen - (r.y + wa.y) * sf
        IN  /\ 2 * Abs(ex) <= SfDen
            /\ 2 * Abs(ey) <= SfDen
            /\ ((r.x + wa.x) * sf) % SfDen = 0 => ex = 0
            /\ ((r.y + wa.y) * sf) % SfDen = 0 => ey = 0

\* The second scenario of the debug scripts: {100,100,200,150} relative to the
\* main window on the 2x display becomes {200,250,400,300}.
C7_Witness ==
    /\ GeoTransformed
    /\ geo.overlayBounds = NoValue
    /\ geo.rawBounds = Rect(100, 100, 200, 150)
    /\ geo.scaledBounds = Rect(200, 250, 400, 300)

\* The step of attempt a in which desktopCapturer.getSources is requested.
CaptureRequested(a) ==
    \/ attempt[a].pc = "cs_hide_wait" /\ attempt'[a].pc = "cs_sources_wait"
    \/ attempt[a].pc = "fs_hide_wait" /\ attempt'[a].pc = "fs_sources_wait"

\* C1: whenever the OS screen capture is requested, no window of the
\* application (registered window or overlay) is on screen.
C1_NoOwnWindowAtCaptureRequest ==
    [][\A a \in Attempts : CaptureRequested(a) => VisibleAppWindows(win) = {}]_vars

\* C2: an attempt that called hideAllAppWindows has called restoreAppWindows
\* after its last hide by the time it completes, on every exit path.
C2_RestoredBeforeCompletion ==
    \A a \in Attempts :
        attempt[a].pc = "done" =>
            /\ ~attempt[a].pendingRestore
            /\ attempt[a].hides > 0 => attempt[a].restores > 0

\* Both capture paths have completed through a failure after the hide: an
\* area attempt whose crop failed and a fullscreen attempt whose OS capture
\* failed.
C2_Witness ==
    \E a, b \in Attempts :
        /\ attempt[a].pc = "done" /\ attempt[a].kind = "area"
        /\ attempt[a].outcome = "crop_failed" /\ attempt[a].hides > 0
        /\ attempt[b].pc = "done" /\ attempt[b].kind = "fullscreen"
        /\ attempt[b].outcome = "capture_failed" /\ attempt[b].hides > 0

\* C3: when an attempt has failed after the hide (capture, crop or OCR),
\* restoreAppWindows has been called exactly once.
C3_RestoredExactlyOnce ==
    \A a \in Attempts :
        (attempt[a].pc = "done"
            /\ attempt[a].outcome \in {"capture_failed", "crop_failed", "ocr_failed"})
        => attempt[a].restores = 1

\* A step of attempt a in which restoreAppWindows runs and nothing else
\* touches a window: processImage resolved, or the fullscreen capture
\* succeeded.
RestoreObserved(a) ==
    \/ attempt[a].pc = "image_wait" /\ attempt'[a].pc = "ocr_wait"
    \/ attempt[a].pc = "fs_sources_wait" /\ attempt'[a].pc = "fs_ocr_wait"

\* C4: restoreAppWindows leaves hidden a registered window that was hidden
\* before hideAllAppWindows, and shows one that was visible before it.
C4_VisibilityMemory ==
    [][\A a \in Attempts : RestoreObserved(a) =>
          \A id \in Registered :
              /\ (id \notin attempt[a].preHideVisible /\ ~isVisible(win, id))
                    => ~isVisible(win', id)
              /\ (id \in attempt[a].preHideVisible /\ win[id].state = "open")
                    => isVisible(win', id)]_vars

\* The bounds a selection has in processAreaCapture when `sender` sends it now.
TransformedNow(sender, data) ==
    transformBounds(data, Snapshot(display),
                    IF Alive(win, captureWindow) /\ sender = captureWindow
                      THEN OverlaySet ELSE NoValue)

OverlapsVisibleRegistered(bounds) ==
    \E id \in Registered :
        win[id].state = "open" /\ win[id].visible /\ boundsOverlap(bounds, WindowBounds(win[id].type))

SelfCaptureRejected(a) ==
    /\ attempt'[a].pc = "done"
    /\ attempt'[a].outcome = "self_capture"
    /\ attempt'[a].hides = 0
    /\ attempt'[a].events = attempt[a].events + 1

C8_CropWithinRaster ==
    \A a \in Attempts :
        attempt[a].pc = "image_wait" =>
            WithinThumbnail(attempt[a].thumbnailBounds, attempt[a].thumbnailSize)

\* C9: a completed attempt has sent exactly one terminal event to the UI.
C9_ExactlyOneTerminalEvent ==
    \A a \in Attempts : attempt[a].pc = "done" => attempt[a].events = 1

\* C10: at most one attempt at a time is between its hideAllAppWindows and
\* its restoreAppWindows.
C10_Serialized ==
    Cardinality({a \in Attempts : attempt[a].pendingRestore}) <= 1

\* C11: when an attempt completes, it has called restoreAppWindows as many
\* times as it has called hideAllAppWindows.
C11_HidesPairedWithRestores ==
    \A a \in Attempts :
        attempt[a].pc = "done" => attempt[a].restores = attempt[a].hides

\* C12: restoreAppWindows makes visible again every window of the
\* application (registered or overlay) that was visible before the most
\* recent hideAllAppWindows and is still open.
C12_RestoreReshowsVisible ==
    [][\A a \in Attempts : RestoreObserved(a) =>
          \A id \in WinIds :
              (id \in attempt[a].preHideVisible
                  /\ win[id].state = "open" /\ win'[id].state = "open")
              => isVisible(win', id)]_vars

\* The step of attempt a in which processOCR is invoked.
OCRInvoked(a) ==
    /\ attempt[a].pc \notin {"ocr_wait", "fs_ocr_wait"}
    /\ attempt'[a].pc \in {"ocr_wait", "fs_ocr_wait"}

C14_CancelStillRestores ==
    \A a \in Attempts :
        (attempt[a].cancelSeen /\ attempt[a].pc = "done") =>
            /\ ~attempt[a].pendingRestore
            /\ attempt[a].restores > 0

\* An area attempt cancelled while its windows were hidden has completed.
C14_Witness ==
    /\ attempt[1].cancelSeen
    /\ attempt[1].pc = "done"
    /\ attempt[1].kind = "area"
    /\ attempt[1].outcome \in {"crop_failed", "succeeded"}

\* C15: a cancel-capture handled during area selection, while the overlay is
\* open and no attempt has started, performs no step of an attempt (no
\* transform, hide, capture or OCR), closes the overlay and leaves the main
\* window visible.
C15_CancelBeforeHide ==
    [][(/\ CancelCapture
        /\ Alive(win, captureWindow)
        /\ win[captureWindow].state = "open"
        /\ \A a \in Attempts : attempt[a].pc = "idle")
       => (/\ attempt' = attempt
           /\ displayInfo' = displayInfo
           /\ overlayBounds' = overlayBounds
           /\ appWindows' = appWindows
           /\ win'[captureWindow].state = "closing"
           /\ ~isVisible(win', captureWindow)
           /\ Alive(win, mainWindow) => isVisible(win', mainWindow)
           /\ \A id \in WinIds \ {captureWindow, mainWindow} : win'[id] = win[id])]_vars

\* The selection was cancelled before any attempt started: the overlay is
\* closing, the main window is back and nothing was transformed.
C15_Witness ==
    /\ \A a \in Attempts : attempt[a].pc = "idle"
    /\ Alive(win, captureWindow)
    /\ win[captureWindow].state = "closing"
    /\ isVisible(win, mainWindow)
    /\ displayInfo = NoValue

GeoCropped == geo.pc = "cropped"

\* q is Math.round(num / den) for den > 0: num/den - 1/2 < q <= num/den + 1/2.
IsRounded(q, num, den) ==
    /\ 2 * q * den <= 2 * num + den
    /\ 2 * num + den < 2 * (q + 1) * den

\* C16: each component of the crop rectangle is the physical component
\* divided by scaleFactor, multiplied by raster width / screen width (x, width)
\* or raster height / screen height (y, height), and rounded; the screen size
\* is that of the display bounds, not of the work area.
C16_CropFormula ==
    GeoCropped =>
        LET sf == geo.displayInfo.scaleFactor
            sw == geo.displayInfo.bounds.width
            sh == geo.displayInfo.bounds.height
            tw == geo.thumbnailSize.width
            th == geo.thumbnailSize.height
            p == geo.scaledBounds
            c == geo.thumbnailBounds
        IN  /\ IsRounded(c.x, p.x * SfDen * tw, sf * sw)
            /\ IsRounded(c.width, p.width * SfDen * tw, sf * sw)
            /\ IsRounded(c.y, p.y * SfDen * th, sf * sh)
            /\ IsRounded(c.height, p.height * SfDen * th, sf * sh)

\* A crop on a display whose work area is smaller than its bounds, at 150%,
\* into a raster whose two axes have different ratios to the screen.
C16_Witness ==
    /\ GeoCropped
    /\ geo.displayInfo.workArea.width < geo.displayInfo.bounds.width
    /\ geo.displayInfo.scaleFactor = SfDen + 2
    /\ geo.thumbnailSize = [width |-> 5, height |-> 4]
    /\ geo.rawBounds = Rect(3, 3, 3, 3)

\* The raster has the device resolution of the display.
RasterIsPhysical ==
    /\ geo.thumbnailSize.width * SfDen = geo.displayInfo.bounds.width * geo.displayInfo.scaleFactor
    /\ geo.thumbnailSize.height * SfDen = geo.displayInfo.bounds.height * geo.displayInfo.scaleFactor

\* C17: when the raster has the device resolution of the display, the crop
\* rectangle is the physical rectangle, component for component.
C17_PhysicalRasterIdentity ==
    (GeoCropped /\ RasterIsPhysical) => geo.thumbnailBounds = geo.scaledBounds

\* The scenario of the debug scripts: 2x display of 1440x900, raster of
\* 2880x1800, overlay selection {591,213,231,304}: {1182,426,462,608} is
\* cropped as it is.
C17_Witness ==
    /\ GeoCropped
    /\ RasterIsPhysical
    /\ geo.displayInfo.scaleFactor = 2 * SfDen
    /\ geo.overlayBounds # NoValue
    /\ geo.rawBounds = Rect(591, 213, 231, 304)
    /\ geo.thumbnailBounds = Rect(1182, 426, 462, 608)

\* The step of attempt a in which captureScreen computes the crop rectangle.
CropComputed(a) ==
    /\ attempt[a].pc = "cs_sources_wait"
    /\ attempt'[a].pc = "image_wait"

\* C18: the display values captureScreen uses for the crop of an attempt are
\* those transformBounds used for that attempt.
C18_OneSnapshotPerAttempt ==
    [][\A a \in Attempts : CropComputed(a) =>
          /\ displayInfo.scaleFactor = attempt[a].snapshot.scaleFactor
          /\ displayInfo.bounds = attempt[a].snapshot.bounds]_vars

\* The step of attempt a in which hideAllAppWindows is called.
HideCalled(a) == attempt'[a].hides = attempt[a].hides + 1

\* C19: a call of hideAllAppWindows leaves neither the overlay nor any
\* registered window on screen, and an attempt requests the OS capture only
\* after a hideAllAppWindows of its own has been called and has resolved,
\* with no restore in between.
C19_HideBeforeCapture ==
    [][\A a \in Attempts :
          /\ HideCalled(a) =>
                /\ \A id \in Registered : ~isVisible(win', id)
                /\ Alive(win, overlayWindow) => ~isVisible(win', overlayWindow)
                /\ attempt'[a].pc \in {"pac_hide_wait", "cs_hide_wait", "fs_hide_wait"}
          /\ CaptureRequested(a) =>
                /\ attempt[a].hides > 0
                /\ attempt[a].pendingRestore]_vars

\* hideAllAppWindows has just hidden the overlay and a registered window.
C19_Witness ==
    /\ attempt[1].pc = "pac_hide_wait"
    /\ Alive(win, overlayWindow)
    /\ overlayWindow \in attempt[1].preHideVisible
    /\ attempt[1].preHideVisible \cap Registered # {}
    /\ VisibleAppWindows(win) = {}

\* C20: the registry holds no destroyed window.
C20_NoDestroyedRegistered ==
    \A id \in Registered : win[id].state # "destroyed"

----------------------------------------------------------------------------
(* The window registry on its own.                                         *)

MaxRegistrations == 4   \* entries of the registry per behaviour

\* SelfCapturePreventionManager.registerWindow(window, type), lines 1327-1330,
\* reached through CaptureManager.registerWindow, lines 1497-1499, applied to
\* a window that exists: a new {window, type} object is added to the Set.
RegisterWindow(id) ==
    /\ win[id].state = "open"
    /\ win[id].type \in {"main", "language-management"}
    /\ Len(appWindows) < MaxRegistrations
    /\ appWindows' = Append(appWindows, id)
    /\ UNCHANGED <<win, mainWindow, captureWindow, languageManagementWindow,
                   overlayWindow, displayInfo, overlayBounds, display, captureMode,
                   startPending, attempt, geo,
                   languageManager, ocr>>

\* Windows shown, hidden, created, closed and registered, with no capture.
RegisterNext ==
    \/ Environment
    \/ CloseLanguageManagement
    \/ \E id \in WinIds : RegisterWindow(id)

RegisterSpec == Init /\ [][RegisterNext]_vars

\* C21: registration is idempotent: however often a window is registered,
\* the registry holds exactly one entry for it.
C21_RegistrationIdempotent ==
    \A i, j \in 1..Len(appWindows) : appWindows[i] = appWindows[j] => i = j

----------------------------------------------------------------------------
(* Selections too small to be read.                                        *)

\* A 5x5 drag (tests/test-drag-capture.spec.js, lines 171-213) and a
\* selection of width 0, both over the desktop left of the main window.
SelTiny == Rect(40, 300, 5, 5)
SelFlat == Rect(40, 300, 0, 40)
SmallSelections == {SelTiny, SelFlat}

\* One area capture attempt whose payload is such a selection or carries no
\* coordinates.
SmallNext ==
    \/ Environment
    \/ StartCapture
    \/ StartCaptureDenied
    \/ StartCaptureArea
    \/ AreaAttempt(1, SmallSelections \cup {NoBounds}, {NativeSize})

SmallSpec == Init /\ [][SmallNext]_vars

\* C22: a selection below the minimum area, or of non-positive width or
\* height, is rejected as invalid by the area-selected handler: nothing is
\* transformed, no window is hidden and no capture is started.
C22_SmallSelectionRejected ==
    [][\A sender \in WinIds, data \in SmallSelections :
          AreaSelected(1, sender, data)
          => /\ attempt'[1].pc = "done"
             /\ attempt'[1].outcome = "invalid"
             /\ attempt'[1].hides = 0
             /\ attempt'[1].scaledBounds = NoValue
             /\ UNCHANGED <<displayInfo, overlayBounds>>]_vars

----------------------------------------------------------------------------
(* restoreAppWindows when a show() throws.                                 *)

\* The for loop of restoreAppWindows, lines 1375-1380, from entry i of the
\* registry on, when window.show() throws for the window `failing`: the loop
\* has no try/catch, so the exception leaves the loop and the method.
RECURSIVE RestoreLoop(_, _, _, _)
RestoreLoop(w, reg, i, failing) ==
    IF i > Len(reg)
      THEN [win |-> w, threw |-> FALSE]
      ELSE IF w[reg[i]].state # "destroyed"
             THEN IF reg[i] = failing
                    THEN [win |-> w, threw |-> TRUE]
                    ELSE RestoreLoop(Show(w, reg[i]), reg, i + 1, failing)
             ELSE RestoreLoop(w, reg, i + 1, failing)

\* hideAllAppWindows called on the windows as they are.
HideAllCall ==
    /\ win' = hideAllAppWindows(Run(1)).win
    /\ UNCHANGED <<mainWindow, captureWindow, languageManagementWindow, appWindows,
                   overlayWindow, displayInfo, overlayBounds, display, captureMode,
                   startPending, attempt, geo,
                   languageManager, ocr>>

\* restoreAppWindows called while show() throws for the registered, not
\* destroyed window `failing`; geo notes the call and how the loop ended.
RestoreShowFails(failing) ==
    /\ failing \in Registered
    /\ win[failing].state # "destroyed"
    /\ LET r == RestoreLoop(win, appWindows, 1, failing)
       IN  /\ win' = r.win
           /\ geo' = [pc |-> "restore", failing |-> failing, threw |-> r.threw]
    /\ UNCHANGED <<mainWindow, captureWindow, languageManagementWindow, appWindows,
                   overlayWindow, displayInfo, overlayBounds, display, captureMode,
                   startPending, attempt, languageManager, ocr>>

RestoreFaultNext ==
    \/ RegisterNext
    \/ HideAllCall
    \/ \E failing \in WinIds : RestoreShowFails(failing)

RestoreFaultSpec == Init /\ [][RestoreFaultNext]_vars

\* C23: a show() that fails on one window does not abort restoreAppWindows:
\* every other registered window that is open is on screen afterwards.
C23_RestoreSurvivesShowFailure ==
    [][\A failing \in WinIds :
          RestoreShowFails(failing)
          => \A id \in Registered \ {failing} :
                win[id].state = "open" => isVisible(win', id)]_vars

----------------------------------------------------------------------------
(* Waiting for the operating system and for the processing window.         *)

\* One area capture attempt in which the timers of the main process fire
\* (the setTimeout calls awaited by hideAllAppWindows, lines 1347-1368);
\* nothing makes desktopCapturer.getSources or the processing window answer.
TimeoutSpec ==
    /\ Init
    /\ [][AreaNext]_vars
    /\ WF_vars(CaptureScreenStart(1))
    /\ WF_vars(CaptureScreenRequest(1))

\* The attempt awaits getSources (line 1549) or the events of processImage
\* (lines 1636-1656).
AwaitingResponse(a) == attempt[a].pc \in {"cs_sources_wait", "image_wait"}

\* C24: an attempt that waits for the capture request or for the processing
\* window ends, with the hidden windows restored, even if no answer comes.
C24_AttemptTerminates ==
    AwaitingResponse(1) ~> (attempt[1].pc = "done" /\ ~attempt[1].pendingRestore)

----------------------------------------------------------------------------
(* boundsOverlap on its own.                                               *)

\* Rectangles of a small grid, as isAppWindow hands them to boundsOverlap
\* (line 1388): a selection and the bounds of a window.
OverlapRects ==
    {Rect(x, y, w, h) : x \in 0..MaxCoord, y \in 0..MaxCoord, w \in 1..2, h \in 1..2}

OverlapInit ==
    /\ OrchInit
    /\ geo \in {[pc |-> "pair", bounds1 |-> a, bounds2 |-> b] :
                   a \in OverlapRects, b \in OverlapRects}

OverlapCall ==
    /\ geo.pc = "pair"
    /\ geo' = [pc |-> "overlap", bounds1 |-> geo.bounds1, bounds2 |-> geo.bounds2,
               result |-> boundsOverlap(geo.bounds1, geo.bounds2)]
    /\ UNCHANGED <<win, mainWindow, captureWindow, languageManagementWindow, appWindows,
                   overlayWindow, displayInfo, overlayBounds, display, captureMode,
                   startPending, attempt, languageManager, ocr>>

OverlapSpec == OverlapInit /\ [][OverlapCall]_vars

\* The points of the closed interval from `from` over `length`.
Span(from, length) == from..(from + length)

\* C25: boundsOverlap holds exactly of the rectangles that, taken with their
\* edges, have a point in common; rectangles that only touch along an edge
\* or at a corner overlap.
C25_OverlapIsClosedIntersection ==
    geo.pc = "overlap"
    => (geo.result
          <=> /\ Span(geo.bounds1.x, geo.bounds1.width)
                    \cap Span(geo.bounds2.x, geo.bounds2.width) # {}
              /\ Span(geo.bounds1.y, geo.bounds1.height)
                    \cap Span(geo.bounds2.y, geo.bounds2.height) # {})

\* Two rectangles side by side, sharing only an edge, were found to overlap.
C25_Witness ==
    /\ geo.pc = "overlap"
    /\ geo.bounds1.x + geo.bounds1.width = geo.bounds2.x
    /\ geo.bounds1.y = geo.bounds2.y
    /\ geo.bounds1.height = geo.bounds2.height
    /\ geo.result

----------------------------------------------------------------------------
(* filterAppWindowsFromSources on its own.                                 *)

MaxSources == 3   \* length of the list handed to filterAppWindowsFromSources

\* BrowserWindow.getMediaSourceId(): the id desktopCapturer gives the source
\* that shows this window ("window:<handle>:0").
getMediaSourceId(id) == <<"window", id>>

\* A window of another application, and the source of the screen.
OtherAppWindow == Cardinality(WinIds) + 1
ScreenSource == <<"screen", 0>>
SourceIds == {ScreenSource} \cup {getMediaSourceId(id) : id \in WinIds \cup {OtherAppWindow}}
SourceLists == UNION {[1..n -> SourceIds] : n \in 0..MaxSources}

\* filterAppWindowsFromSources, lines 1407-1472; a source is held as its id.
filterAppWindowsFromSources_NoOverlay(sources) ==
    LET appWindowIds ==
          {getMediaSourceId(appWindows[i]) :
              i \in {j \in 1..Len(appWindows) : win[appWindows[j]].state # "destroyed"}}
        Keep(source) == source \notin appWindowIds
    IN  SelectSeq(sources, Keep)

filterAppWindowsFromSources(sources) ==
    LET appWindowIds ==
          {getMediaSourceId(appWindows[i]) :
              i \in {j \in 1..Len(appWindows) : win[appWindows[j]].state # "destroyed"}}
          \cup (IF Alive(win, overlayWindow) THEN {getMediaSourceId(overlayWindow)} ELSE {})
        Keep(source) == source \notin appWindowIds
    IN  SelectSeq(sources, Keep)

FilterCall(sources) ==
    /\ geo = GeoIdle
    /\ geo' = [pc |-> "filter", sources |-> sources,
               result |-> filterAppWindowsFromSources(sources)]
    /\ UNCHANGED <<win, mainWindow, captureWindow, languageManagementWindow, appWindows,
                   overlayWindow, displayInfo, overlayBounds, display, captureMode,
                   startPending, attempt, languageManager, ocr>>

\* Windows and overlays created and closed, and one list of sources filtered.
FilterNext ==
    \/ Environment
    \/ CloseLanguageManagement
    \/ StartCapture
    \/ StartCaptureDenied
    \/ StartCaptureArea
    \/ \E sources \in SourceLists : FilterCall(sources)

FilterSpec == Init /\ [][FilterNext]_vars

\* The media-source ids of the registered windows that are not destroyed and
\* of the overlay, if it is not destroyed.
OwnSourceIds ==
    {getMediaSourceId(id) : id \in {r \in Registered : win[r].state # "destroyed"}}
    \cup {getMediaSourceId(id) : id \in {o \in WinIds : o = overlayWindow /\ win[o].state # "destroyed"}}

----------------------------------------------------------------------------
(* LanguageManager (src/language-manager.js).  Its operations act on a     *)
(* record L of the shape of languageManager.  The field combinedIndex is   *)
(* the position of downloadCombinedLanguage: 0 when it is not running, i   *)
(* when it awaits the download of requiredLanguages[i]; combinedSnapshot   *)
(* is its local `installedLanguages`, read once at its start.              *)

includes(list, code) == code \in Range(list)
without(list, code) == SelectSeq(list, LAMBDA c : c # code)
push(list, code) == IF includes(list, code) THEN list ELSE Append(list, code)

\* getInstalledLanguages, lines 540-566: the available languages that the
\* store lists, in the order of availableLanguages.
getInstalledLanguages(L) ==
    SelectSeq(AvailableLanguages, LAMBDA c : includes(L.installedLanguages, c))

\* hasInstalledLanguages and isFirstLaunch, lines 571-581.
hasInstalledLanguages(L) == Len(L.installedLanguages) > 0
isFirstLaunch(L) == ~hasInstalledLanguages(L)

\* fs.existsSync of the file of a language.
fileExists(L, code) == L.files[code] # "absent"

\* validateLanguageFile, lines 1034-1082, of a file a download has finished
\* writing: it exists, has at least 1 MB and is readable.
validateLanguageFile(L, code) == L.files[code] = "complete"

\* A download ends in error: the catch and finally blocks of downloadLanguage,
\* lines 684-698, and of downloadCombinedLanguage, lines 293-310.
downloadError_NoFinally(L, code) ==
    [L EXCEPT !.downloadProgress[code] = "error"]

downloadError(L, code) ==
    [L EXCEPT !.downloadProgress[code] = "error",
              !.activeDownloads = @ \ {code}]

\* The default language becomes `code` if none is set (lines 678-680, 288-290).
setDefaultIfNone(L, code) ==
    IF L.defaultLanguage = "none" THEN [L EXCEPT !.defaultLanguage = code] ELSE L

\* downloadLanguage of a single language up to its await of downloadFile,
\* lines 587-644 and 908-911: fs.createWriteStream opens the file for writing.
downloadBegins(L, code) ==
    [L EXCEPT !.downloadProgress[code] = "downloading",
              !.activeDownloads = @ \cup {code},
              !.writers[code] = @ + 1,
              !.files[code] = "partial"]

\* downloadLanguage throws before it starts anything, lines 587-607.
downloadRefused_NoProgressCheck(L, code) ==
    includes(L.installedLanguages, code)

downloadRefused(L, code) ==
    includes(L.installedLanguages, code) \/ code \in L.activeDownloads

\* addLanguageToManifest, lines 1101-1134 (the checksum it awaits is read
\* within the step).
addLanguageToManifest(L, code) ==
    [L EXCEPT !.manifest = @ \cup {code},
              !.installedLanguages = push(@, code)]

\* downloadLanguage of a single language after downloadFile settled, lines
\* 645-698.  `result` is what downloadFile left: "failed" (rejected, the
\* partial file unlinked), "complete" or "corrupt" (resolved).
downloadEnds(L, code, result) ==
    IF result = "failed"
      THEN downloadError([L EXCEPT !.files[code] = "absent", !.writers[code] = @ - 1], code)
      ELSE LET L1 == [L EXCEPT !.files[code] = result, !.writers[code] = @ - 1]
           IN  IF ~validateLanguageFile(L1, code)
                 THEN downloadError([L1 EXCEPT !.files[code] = "absent"], code)
                 ELSE LET L2 == addLanguageToManifest(L1, code)
                          L3 == [L2 EXCEPT !.downloadProgress[code] = "completed",
                                           !.activeDownloads = @ \ {code}]
                      IN  setDefaultIfNone(L3, code)

\* The download ended with the language installed.
downloadSucceeded(L, code) == L.downloadProgress[code] = "completed"

\* downloadCombinedLanguage ends in error, lines 293-310.
combinedError(L) == [downloadError(L, "khm+eng") EXCEPT !.combinedIndex = 0]

\* downloadCombinedLanguage after its loop, lines 244-292: every required
\* language is listed and has a file, then the combined code is listed.
combinedFinal(L) ==
    IF \A i \in 1..Len(requiredLanguages) :
          /\ includes(L.installedLanguages, requiredLanguages[i])
          /\ fileExists(L, requiredLanguages[i])
      THEN setDefaultIfNone(
             [L EXCEPT !.installedLanguages = push(@, "khm+eng"),
                       !.downloadProgress["khm+eng"] = "completed",
                       !.activeDownloads = @ \ {"khm+eng"},
                       !.combinedIndex = 0],
             "khm+eng")
      ELSE combinedError(L)

\* The loop of downloadCombinedLanguage from iteration i on, lines 194-242,
\* up to the next download it has to await.
RECURSIVE combinedLoop(_, _)
combinedLoop(L, i) ==
    IF i > Len(requiredLanguages)
      THEN combinedFinal(L)
      ELSE LET req == requiredLanguages[i]
           IN  IF req \notin L.combinedSnapshot
                 THEN IF downloadRefused(L, req)
                        THEN combinedError(L)
                        ELSE [downloadBegins(L, req) EXCEPT !.combinedIndex = i]
                 ELSE IF fileExists(L, req)
                        THEN combinedLoop(L, i + 1)
                        ELSE LET L1 == [L EXCEPT !.installedLanguages = without(@, req)]
                             IN  IF downloadRefused(L1, req)
                                   THEN combinedError(L1)
                                   ELSE [downloadBegins(L1, req) EXCEPT !.combinedIndex = i]

\* deleteLanguage, lines 704-750; a call that throws changes nothing.
deleteLanguage(L, code) ==
    IF ~includes(L.installedLanguages, code) \/ Len(L.installedLanguages) = 1
      THEN L
      ELSE LET remaining == without(L.installedLanguages, code)
               L1 == [L EXCEPT !.files = [c \in SingleCodes |->
                                            IF c = code THEN "absent" ELSE @[c]],
                               !.manifest = @ \ {code},
                               !.installedLanguages = remaining]
           IN  IF L.defaultLanguage = code
                 THEN [L1 EXCEPT !.defaultLanguage =
                          IF includes(remaining, "eng") THEN "eng" ELSE remaining[1]]
                 ELSE L1

\* getLanguageDataPath, lines 762-834: the manager after the call, the path
\* it returned ("none" for null) and whether it threw.
getLanguageDataPath(L, code) ==
    IF ~includes(L.installedLanguages, code)
      THEN [L |-> L, path |-> "none", threw |-> FALSE]
      ELSE IF isCombined(code)
             THEN IF \E i \in 1..Len(requiredLanguages) :
                        \/ ~includes(L.installedLanguages, requiredLanguages[i])
                        \/ ~fileExists(L, requiredLanguages[i])
                    THEN [L |-> [L EXCEPT !.installedLanguages = without(@, code)],
                          path |-> "none", threw |-> TRUE]
                    ELSE [L |-> L, path |-> "languages", threw |-> FALSE]
             ELSE IF ~fileExists(L, code)
                    THEN [L |-> [L EXCEPT !.installedLanguages = without(@, code)],
                          path |-> "none", threw |-> FALSE]
                    ELSE [L |-> L, path |-> "languages", threw |-> FALSE]

----------------------------------------------------------------------------
(* The handlers of the language packs and the language part of processOCR. *)

captureVars == <<win, mainWindow, captureWindow, languageManagementWindow, appWindows,
                 overlayWindow, displayInfo, overlayBounds, display, captureMode,
                 startPending, attempt, geo>>

\* ipcMain.handle("language-download"), lines 701-728, with downloadLanguage
\* up to its first await of downloadFile; a call that downloadLanguage
\* refuses changes nothing.
DownloadLanguage(code) ==
    /\ ~downloadRefused(languageManager, code)
    /\ languageManager' =
          IF isCombined(code)
            THEN combinedLoop([languageManager EXCEPT
                                  !.downloadProgress[code] = "downloading",
                                  !.activeDownloads = @ \cup {code},
                                  !.combinedSnapshot = Range(languageManager.installedLanguages)], 1)
            ELSE downloadBegins(languageManager, code)
    /\ UNCHANGED <<captureVars, ocr>>

\* downloadFile of a single language settled: the rest of downloadLanguage
\* and, if downloadCombinedLanguage awaited it, its continuation.
DownloadFileSettled(code, result) ==
    /\ code \in languageManager.activeDownloads
    /\ languageManager.downloadProgress[code] = "downloading"
    /\ LET L1 == downloadEnds(languageManager, code, result)
           i == languageManager.combinedIndex
       IN  languageManager' =
              IF i > 0 /\ requiredLanguages[i] = code
                THEN IF downloadSucceeded(L1, code)
                       THEN combinedLoop(L1, i + 1)
                       ELSE combinedError(L1)
                ELSE L1
    /\ UNCHANGED <<captureVars, ocr>>

\* ipcMain.handle("language-delete"), lines 730-732.
DeleteLanguage(code) ==
    /\ languageManager' = deleteLanguage(languageManager, code)
    /\ UNCHANGED <<captureVars, ocr>>

\* ipcMain.handle("set-config") with key language, lines 657-659.
SetLanguage(language) ==
    /\ ocr.pc = "idle"
    /\ language # ocr.language
    /\ ocr' = [ocr EXCEPT !.language = language]
    /\ UNCHANGED <<captureVars, languageManager>>

\* What Tesseract.detect leads processOCR to, lines 1039-1080: a language
\* mapped from the script, some of them never installed, or "khm+eng".
DetectedLanguages == Codes \cup {"chi_sim"}

\* processOCR, lines 1087-1159, from getInstalledLanguages to createWorker:
\* the language is chosen, its data path asked for, and the worker created.
chooseLanguage(L, selectedLanguage, finalLanguage) ==
    LET installedCodes == getInstalledLanguages(L)
        first == IF installedCodes # <<>> THEN installedCodes[1] ELSE "eng"
    IN  IF selectedLanguage = "auto"
          THEN IF includes(installedCodes, finalLanguage) THEN finalLanguage ELSE first
          ELSE IF includes(installedCodes, selectedLanguage) THEN selectedLanguage ELSE first

createWorker(finalLanguage) ==
    LET ocrLanguage == chooseLanguage(languageManager, ocr.language, finalLanguage)
        r == getLanguageDataPath(languageManager, ocrLanguage)
    IN  /\ languageManager' = r.L
        /\ ocr' = [ocr EXCEPT
              !.pc = "idle",
              !.workers = IF r.threw \/ r.path = "none"
                            THEN @
                            ELSE @ \cup {[lang |-> ocrLanguage, langPath |-> r.path]}]

\* processOCR is called at the end of a capture, and a capture is started
\* from the main window.  With a language chosen by the user, lines 959-1159
\* run without an await that waits for anything.
ProcessOCRSelected ==
    /\ Alive(win, mainWindow)
    /\ ocr.pc = "idle"
    /\ ocr.language # "auto"
    /\ createWorker(ocr.language)
    /\ UNCHANGED captureVars

\* processOCR with language "auto" up to its await of Tesseract.detect, line
\* 1039: tesseract.js builds a worker of its own for the language "osd",
\* with its default options.
ProcessOCRDetect ==
    /\ Alive(win, mainWindow)
    /\ ocr.pc = "idle"
    /\ ocr.language = "auto"
    /\ ocr' = [ocr EXCEPT !.pc = "detecting",
                          !.workers = @ \cup {[lang |-> "osd", langPath |-> "none"]}]
    /\ UNCHANGED <<captureVars, languageManager>>

\* Tesseract.detect settled: finalLanguage is the language mapped from the
\* script or "khm+eng" (lines 1041-1080), then lines 1087-1159.
ProcessOCRDetected(finalLanguage) ==
    /\ ocr.pc = "detecting"
    /\ createWorker(finalLanguage)
    /\ UNCHANGED captureVars

----------------------------------------------------------------------------
(* Launching the application: app.whenReady, main.js lines 1895-1924, with *)
(* LanguageManager.initialize, lines 313-343.                              *)

\* scanExistingLanguages, lines 401-510: every file <code>.traineddata of
\* the languages directory lists its language, in the order of the directory,
\* and the combined language is listed if its components are.
scanExistingLanguages(L) ==
    LET found == SelectSeq(<<"eng", "khm">>, LAMBDA c : fileExists(L, c))
        installedLanguages ==
            IF \A i \in 1..Len(requiredLanguages) : includes(found, requiredLanguages[i])
              THEN Append(found, "khm+eng")
              ELSE found
        L1 == [L EXCEPT !.installedLanguages = installedLanguages,
                        !.manifest = Range(installedLanguages)]
    IN  IF installedLanguages # <<>> /\ L.defaultLanguage = "none"
          THEN [L1 EXCEPT !.defaultLanguage =
                   IF includes(installedLanguages, "eng") THEN "eng" ELSE installedLanguages[1]]
          ELSE L1

\* initialize in a new process: the maps of the downloads are empty, the
\* store and the files are those the last process left.
initialize(L) ==
    scanExistingLanguages([L EXCEPT !.downloadProgress = [c \in Codes |-> "none"],
                                    !.activeDownloads = {},
                                    !.writers = [c \in SingleCodes |-> 0],
                                    !.combinedIndex = 0,
                                    !.combinedSnapshot = {}])

\* createMainWindow, lines 592-633, on the window table w.
createMainWindow(w) ==
    /\ win[MainId].state = "none"
    /\ win' = NewWindow(w, MainId, "main")
    /\ mainWindow' = MainId
    /\ appWindows' = Append(appWindows, MainId)

\* The application was quit and is launched again: a new process, whose
\* first window depends on isFirstLaunch (lines 1904-1912).
Relaunch ==
    /\ languageManager' = initialize(languageManager)
    /\ LET first == IF isFirstLaunch(languageManager') THEN LangId ELSE MainId
       IN  /\ win' = [w \in WinIds |->
                        IF w = first
                          THEN [type |-> IF w = MainId THEN "main" ELSE "language-management",
                                state |-> "open", visible |-> TRUE]
                          ELSE NoWindow]
           /\ mainWindow' = IF first = MainId THEN MainId ELSE Null
           /\ languageManagementWindow' = IF first = LangId THEN LangId ELSE Null
           /\ appWindows' = <<first>>
    /\ captureWindow' = Null
    /\ overlayWindow' = Null
    /\ displayInfo' = NoValue
    /\ overlayBounds' = NoValue
    /\ startPending' = 0
    /\ attempt' = [a \in Attempts |-> IdleAttempt]
    /\ ocr' = [OcrIdle EXCEPT !.language = ocr.language]
    /\ UNCHANGED <<display, captureMode, geo>>

\* The first launch: no language is installed, the language-management
\* window is the only window.
FirstLaunchInit ==
    /\ win = [w \in WinIds |->
                IF w = LangId
                  THEN [type |-> "language-management", state |-> "open", visible |-> TRUE]
                  ELSE NoWindow]
    /\ mainWindow = Null
    /\ captureWindow = Null
    /\ languageManagementWindow = LangId
    /\ appWindows = <<LangId>>
    /\ overlayWindow = Null
    /\ displayInfo = NoValue
    /\ overlayBounds = NoValue
    /\ display = PrimaryDisplay
    /\ captureMode = "area"
    /\ startPending = 0
    /\ attempt = [a \in Attempts |-> IdleAttempt]
    /\ geo = GeoIdle
    /\ languageManager = NothingInstalled
    /\ ocr = OcrIdle

\* ipcMain.handle("show-main-window"), lines 734-753; with no language
\* installed it throws and changes nothing.
HandleShowMainWindow ==
    /\ getInstalledLanguages(languageManager) # <<>>
    /\ LET w1 == IF Alive(win, languageManagementWindow)
                   THEN Close(win, languageManagementWindow)
                   ELSE win
       IN  IF ~Alive(win, mainWindow)
             THEN createMainWindow(w1)
             ELSE /\ win' = Show(w1, mainWindow)
                  /\ UNCHANGED <<mainWindow, appWindows>>
    /\ UNCHANGED <<captureWindow, languageManagementWindow, overlayWindow, displayInfo,
                   overlayBounds, display, captureMode, startPending, attempt, geo,
                   languageManager, ocr>>

\* Language packs downloaded and deleted, the main window opened, the
\* application relaunched, and processOCR run.
LanguageNext ==
    \/ \E code \in Codes : DownloadLanguage(code)
    \/ \E code \in SingleCodes, result \in {"failed", "complete", "corrupt"} :
          DownloadFileSettled(code, result)
    \/ \E code \in Codes : DeleteLanguage(code)
    \/ \E language \in Codes \cup {"auto"} : SetLanguage(language)
    \/ ProcessOCRSelected
    \/ ProcessOCRDetect
    \/ \E finalLanguage \in DetectedLanguages : ProcessOCRDetected(finalLanguage)
    \/ HandleShowMainWindow
    \/ Relaunch

LanguageSpec == FirstLaunchInit /\ [][LanguageNext]_vars

----------------------------------------------------------------------------
(* The windows of a first launch.                                          *)

\* app.on("activate"), lines 1936-1940 (macOS, where window-all-closed,
\* lines 1926-1930, does not quit): the application is activated while it
\* has no window.
Activate ==
    /\ \A id \in WinIds : win[id].state \in {"none", "destroyed"}
    /\ createMainWindow(win)
    /\ UNCHANGED <<captureWindow, languageManagementWindow, overlayWindow, displayInfo,
                   overlayBounds, display, captureMode, startPending, attempt, geo,
                   languageManager, ocr>>

FirstLaunchNext ==
    \/ \E code \in Codes : DownloadLanguage(code)
    \/ \E code \in SingleCodes, result \in {"failed", "complete", "corrupt"} :
          DownloadFileSettled(code, result)
    \/ \E code \in Codes : DeleteLanguage(code)
    \/ HandleShowMainWindow
    \/ ShowLanguageManagement
    \/ CloseLanguageManagement
    \/ \E id \in WinIds : WindowClosed(id)
    \/ Activate
    \/ ShowMainWindow
    \/ HideMainWindow

FirstLaunchSpec == FirstLaunchInit /\ [][FirstLaunchNext]_vars

\* C27: the main window is created or shown only while a language is
\* installed.
C27_MainWindowNeedsLanguage ==
    [][(\/ win[MainId].state = "none" /\ win'[MainId].state # "none"
        \/ ~isVisible(win, MainId) /\ isVisible(win', MainId))
          => hasInstalledLanguages(languageManager)]_vars

----------------------------------------------------------------------------
(* Properties of the language packs.                                       *)

\* C28: a language is listed in installedLanguages only by a step in which
\* its download has finished and its file has passed validateLanguageFile;
\* a download that fails leaves the language unlisted with the status
\* "error", and its file is gone.
C28_InstalledOnlyAfterValidDownload ==
    [][\A code \in SingleCodes :
          /\ (~includes(languageManager.installedLanguages, code)
                /\ includes(languageManager'.installedLanguages, code))
             => /\ languageManager.downloadProgress[code] = "downloading"
                /\ languageManager'.downloadProgress[code] = "completed"
                /\ validateLanguageFile(languageManager', code)
          /\ \A result \in {"failed", "corrupt"} :
                DownloadFileSettled(code, result)
                => /\ ~includes(languageManager'.installedLanguages, code)
                   /\ languageManager'.downloadProgress[code] = "error"
                   /\ ~fileExists(languageManager', code)]_vars

\* C29: once a language is installed, one always is; deleteLanguage of the
\* only installed language changes neither the files, the manifest nor the
\* store.
C29_OneLanguageRemains ==
    [][/\ hasInstalledLanguages(languageManager) => hasInstalledLanguages(languageManager')
       /\ \A code \in Codes :
             (DeleteLanguage(code) /\ languageManager.installedLanguages = <<code>>)
             => UNCHANGED languageManager]_vars

----------------------------------------------------------------------------
(* Capture attempts overlapping in time: whose listeners an event runs.    *)

\* C31: an image-processing-complete or image-processing-error event sent by
\* the processing window of one attempt settles the processImage promise of
\* that attempt only: every other attempt that awaits processImage still
\* awaits it after the event.
C31_EventSettlesOwnAttemptOnly ==
    [][\A a \in Attempts :
         \A channel \in {"image-processing-complete", "image-processing-error"} :
            ImageProcessingEvent(a, channel) =>
                \A b \in Attempts \ {a} :
                    attempt[b].pc = "image_wait" => attempt'[b].pc = "image_wait"]_vars

----------------------------------------------------------------------------
(* start-capture repeated: the selection overlays.                         *)

\* start-capture handled again while an overlay exists (the shortcut of line
\* 1915 is global), with area-selected, cancel-capture / capture-error and
\* the window events.
OverlayNext ==
    \/ Environment
    \/ StartCapture
    \/ StartCaptureDenied
    \/ StartCaptureAreaIn(RepeatedOverlayIds)
    \/ AreaAttempt(1, {SelCorner}, {NativeSize})

OverlaySpec == Init /\ [][OverlayNext]_vars

OpenOverlays == {id \in WinIds : win[id].type = "overlay" /\ win[id].state = "open"}

\* C32: at most one selection overlay is open at any time, and an open
\* overlay is the window captureWindow refers to.
C32_OneOverlayReferenced ==
    /\ Cardinality(OpenOverlays) <= 1
    /\ \A id \in OpenOverlays : captureWindow = id

----------------------------------------------------------------------------
(* The origin of a selection: overlay creation interleaved with            *)
(* area-selected events of the overlay and of the main window.             *)

OriginNext ==
    \/ StartCapture
    \/ StartCaptureDenied
    \/ StartCaptureArea
    \/ CancelCapture
    \/ \E id \in WinIds : WindowClosed(id)
    \/ \E a \in Attempts : AreaAttempt(a, {SelCorner}, {NativeSize})

OriginSpec == Init /\ [][OriginNext]_vars

\* The physical rectangle of selection r on display d with origin o added.
ScaledFrom(r, d, o) ==
    Rect(MathRound((r.x + o.x) * d.scaleFactor, SfDen),
         MathRound((r.y + o.y) * d.scaleFactor, SfDen),
         MathRound(r.width * d.scaleFactor, SfDen),
         MathRound(r.height * d.scaleFactor, SfDen))

\* C33: an area-selected event is transformed without the work-area offset
\* exactly when its sender is the current, not destroyed capture overlay, and
\* with the work-area origin added otherwise, whatever overlays were created
\* and whatever events were handled before it.
C33_OriginFromOwnSender ==
    [][\A a \in Attempts, sender \in WinIds, data \in Selections :
          AreaSelected(a, sender, data) =>
             LET fromOverlay == Alive(win, captureWindow) /\ sender = captureWindow
                 origin == IF fromOverlay THEN [x |-> 0, y |-> 0] ELSE display.workArea
             IN  /\ (overlayBounds' # NoValue) <=> fromOverlay
                 /\ attempt'[a].pc = "pac_hide_wait" =>
                        attempt'[a].scaledBounds = ScaledFrom(data, display, origin)]_vars

\* Two attempts in flight with the same selection: the first sent by the
\* overlay, the second by the main window after the overlay was created.
C33_Witness ==
    /\ attempt[1].pc = "cs_sources_wait"
    /\ attempt[1].scaledBounds = ScaledFrom(SelCorner, PrimaryDisplay, [x |-> 0, y |-> 0])
    /\ attempt[2].pc = "pac_hide_wait"
    /\ attempt[2].scaledBounds = ScaledFrom(SelCorner, PrimaryDisplay, PrimaryDisplay.workArea)
    /\ attempt[1].scaledBounds # attempt[2].scaledBounds
    /\ overlayWindow # Null

----------------------------------------------------------------------------
(* The ipcMain listeners of processImage.                                  *)

\* C34: a completed attempt has none of the listeners it registered in
\* processImage still registered.
C34_NoListenerAfterCompletion ==
    \A a \in Attempts : attempt[a].pc = "done" => attempt[a].listeners = {}

----------------------------------------------------------------------------
(* Invariants of the language store.                                       *)

\* C35: whenever the combined language is listed in installedLanguages,
\* each of its required languages is listed too.
C35_CombinedImpliesComponents ==
    includes(languageManager.installedLanguages, "khm+eng") =>
        \A i \in 1..Len(requiredLanguages) :
            includes(languageManager.installedLanguages, requiredLanguages[i])

----------------------------------------------------------------------------
(* Downloads requested while downloads run.                                *)

\* The error downloadLanguage throws at its guards, lines 598-607.
refusal(L, code) ==
    IF includes(L.installedLanguages, code) THEN "already installed" ELSE "already in progress"

\* ipcMain.handle("language-download") for a language that downloadLanguage
\* refuses: it throws at its guards, before it changes anything, and the
\* handler passes the error on (lines 718-727).
DownloadLanguageRefused(code) ==
    /\ downloadRefused(languageManager, code)
    /\ geo' = [pc |-> "download", code |-> code, error |-> refusal(languageManager, code)]
    /\ UNCHANGED <<win, mainWindow, captureWindow, languageManagementWindow, appWindows,
                   overlayWindow, displayInfo, overlayBounds, display, captureMode,
                   startPending, attempt, languageManager, ocr>>

DownloadNext ==
    \/ \E code \in Codes : DownloadLanguage(code)
    \/ \E code \in Codes : DownloadLanguageRefused(code)
    \/ \E code \in SingleCodes, result \in {"failed", "complete", "corrupt"} :
          DownloadFileSettled(code, result)
    \/ \E code \in Codes : DeleteLanguage(code)

DownloadSpec == FirstLaunchInit /\ [][DownloadNext]_vars

\* A download call for `code` is made in this step while a download of it
\* runs: by the handler, or by downloadCombinedLanguage for a component.
CalledWhileActive(code) ==
    /\ code \in languageManager.activeDownloads
    /\ \/ DownloadLanguageRefused(code)
       \/ /\ DownloadLanguage("khm+eng")
          /\ code \in Range(requiredLanguages)

\* C36: at most one download of a language is in flight, and a download call
\* for a language whose download runs is refused with "already in progress"
\* and leaves the entry and the progress record of the running download as
\* they are.
C36_OneDownloadPerLanguage ==
    [][/\ \A code \in SingleCodes : languageManager'.writers[code] <= 1
       /\ \A code \in Codes :
             CalledWhileActive(code) =>
                /\ code \in languageManager'.activeDownloads
                /\ languageManager'.downloadProgress[code] = languageManager.downloadProgress[code]
                /\ code \in SingleCodes =>
                      /\ languageManager'.writers[code] = languageManager.writers[code]
                      /\ languageManager'.files[code] = languageManager.files[code]
                /\ DownloadLanguageRefused(code) => geo'.error = "already in progress"]_vars

\* The download of "khm" runs, started on its own, and a download of the
\* combined language has just failed on it.
C36_Witness ==
    /\ "khm" \in languageManager.activeDownloads
    /\ languageManager.downloadProgress["khm"] = "downloading"
    /\ languageManager.writers["khm"] = 1
    /\ languageManager.combinedIndex = 0
    /\ languageManager.downloadProgress["khm+eng"] = "error"
    /\ geo # GeoIdle
    /\ geo.code = "khm"

\* C37: when a download call settles, by success or by an error, its
\* language has no entry in activeDownloads; an entry of activeDownloads
\* always belongs to a download that is running.
C37_SettledDownloadLeavesNoEntry ==
    [][/\ \A code \in SingleCodes, result \in {"failed", "complete", "corrupt"} :
             DownloadFileSettled(code, result) => code \notin languageManager'.activeDownloads
       /\ (/\ languageManager'.combinedIndex = 0
           /\ languageManager.combinedIndex > 0 \/ DownloadLanguage("khm+eng"))
             => "khm+eng" \notin languageManager'.activeDownloads
       /\ \A code \in languageManager'.activeDownloads :
             IF isCombined(code)
               THEN languageManager'.combinedIndex > 0
               ELSE languageManager'.writers[code] > 0]_vars

\* A combined download has failed on its second component after the first
\* was installed, and nothing is marked as in progress.
C37_Witness ==
    /\ languageManager.downloadProgress["khm+eng"] = "error"
    /\ languageManager.downloadProgress["eng"] = "error"
    /\ languageManager.downloadProgress["khm"] = "completed"
    /\ languageManager.activeDownloads = {}
    /\ languageManager.combinedIndex = 0

----------------------------------------------------------------------------
(* The default language.                                                   *)

\* setDefaultLanguage, lines 846-853; it throws for a language that is not
\* listed and changes nothing.
setDefaultLanguage(L, code) ==
    IF includes(L.installedLanguages, code) THEN [L EXCEPT !.defaultLanguage = code] ELSE L

SetDefaultLanguage(code) ==
    /\ languageManager' = setDefaultLanguage(languageManager, code)
    /\ UNCHANGED <<captureVars, ocr>>

\* A call of getLanguageDataPath (processOCR makes it at main.js line 1129).
GetLanguageDataPath(code) ==
    /\ languageManager' = getLanguageDataPath(languageManager, code).L
    /\ UNCHANGED <<captureVars, ocr>>

DefaultNext ==
    \/ \E code \in Codes : DownloadLanguage(code)
    \/ \E code \in SingleCodes, result \in {"failed", "complete", "corrupt"} :
          DownloadFileSettled(code, result)
    \/ \E code \in Codes : DeleteLanguage(code)
    \/ \E code \in Codes : SetDefaultLanguage(code)
    \/ \E code \in Codes : GetLanguageDataPath(code)

DefaultSpec == FirstLaunchInit /\ [][DefaultNext]_vars

\* C38: a default language that is set is listed in installedLanguages, and
\* deleting the default language makes "eng" the default if it is listed
\* and the first listed language otherwise.
C38_DefaultIsInstalled ==
    [][/\ languageManager'.defaultLanguage # "none" =>
             includes(languageManager'.installedLanguages, languageManager'.defaultLanguage)
       /\ \A code \in Codes :
             (/\ DeleteLanguage(code)
              /\ languageManager.defaultLanguage = code
              /\ languageManager'.installedLanguages # languageManager.installedLanguages)
             => languageManager'.defaultLanguage =
                   IF includes(languageManager'.installedLanguages, "eng")
                     THEN "eng"
                     ELSE languageManager'.installedLanguages[1]]_vars

----------------------------------------------------------------------------
(* area-selected with a payload that has no coordinates.                   *)

\* C39: an area-selected payload with neither bounds nor all of x, y, width
\* and height is reported as invalid to the main window, and nothing else
\* happens: no window is hidden, shown or closed, the geometry is not
\* queried, no capture is requested, and the overlay origin stays as it was.
C39_InvalidPayloadOnlyReported ==
    [][\A a \in Attempts, sender \in WinIds :
          AreaSelected(a, sender, NoBounds) =>
             /\ attempt'[a].pc = "done"
             /\ attempt'[a].outcome = "invalid"
             /\ attempt'[a].events =
                   attempt[a].events + (IF Alive(win, mainWindow) THEN 1 ELSE 0)
             /\ win' = win
             /\ captureWindow' = captureWindow
             /\ UNCHANGED <<displayInfo, overlayBounds, overlayWindow, appWindows>>
             /\ attempt'[a].hides = attempt[a].hides
             /\ attempt'[a].restores = attempt[a].restores
             /\ attempt'[a].scaledBounds = NoValue
             /\ attempt'[a].snapshot = NoValue
             /\ attempt'[a].listeners = {}]_vars

\* The overlay has sent a payload without coordinates: it is still open and
\* referenced, the main window is still hidden, the overlay origin is set,
\* and the error was reported.
C39_Witness ==
    /\ attempt[1].outcome = "invalid"
    /\ attempt[1].events = 1
    /\ Alive(win, captureWindow)
    /\ win[captureWindow].state = "open"
    /\ ~isVisible(win, MainId)
    /\ overlayBounds = OverlaySet
    /\ displayInfo = NoValue

====
